---- MODULE Spec2Model ----
(***************************************************************************)
(* A model of cooprefr/sss: the price History (src/data/price_data.rs),    *)
(* the Arbitrage Detector (src/lib.rs) and the WebSocket subscription      *)
(* multiplexer (src/connection/websocket.rs) with its caller (src/main.rs).*)
(*                                                                         *)
(* The three components share no state, so each has its own specification  *)
(* over its own variables; the variables of the other components stay at   *)
(* their initial values.                                                   *)
(*                                                                         *)
(* f64 prices and volumes are modelled by small naturals; a quotient that  *)
(* the code computes in f64 is kept as an exact fraction [num, den], with  *)
(* den = 0 standing for the IEEE results of a division by zero (+inf when  *)
(* num > 0, NaN when num = 0).                                             *)
(***************************************************************************)
EXTENDS Integers, Sequences, FiniteSets, TLC

VARIABLES
    \* ---- PriceHistory (price_data.rs:26-31) and what was recorded into it
    points,             \* VecDeque<PricePoint>
    candlesticks,       \* VecDeque<CandlestickData>
    max_size,           \* usize
    timeframe_seconds,  \* u64
    recorded,           \* history variable: every point passed to add_price_point, in order
    panicked,           \* the thread calling into the history has panicked
    regenerated,        \* history variable: the last operation on the history was
                        \* TradingChart::regenerate_candlesticks
    change_24h,         \* what the last TradingChart::get_price_change_24h returned
                        \* (kind "unasked" before the first call)
    \* ---- ArbitrageDetector (lib.rs:306-310) and the argument of its last call
    opportunities,          \* Vec<ArbitrageOpportunity>
    min_profit_threshold,   \* f64, set by ArbitrageDetector::new
    lastPrices,             \* history variable: the price map of the last detect call
    prior_len,              \* history variable of the call-sequence runs: the length of
                            \* the list the last detect call found and cleared
    \* ---- the caller of the client (main.rs MyApp)
    client,         \* the client of the application: "none" before new, "held" (by
                    \* connect_websocket, main.rs:148, then by MyApp::ws_client),
                    \* "dropped" once released
    connected,      \* MyApp::connected
    connect_call,   \* where the Connect handler is: not in connect_websocket, or in
                    \* it after new returned, with the pools it has yet to subscribe
    new_result,     \* what SolanaWebSocketClient::new returned: "none" (not called), "Ok",
                    \* "Err"; "panic" when the Connect handler panicked before the call
    last_submit,    \* what the last subscribe/unsubscribe the caller made on the client
                    \* it holds returned: "none", "Ok", "Err"
    last_recv,      \* what the last recv/try_recv on that client returned: status "none" (not called),
                    \* "update" (with the update), "empty" or "disconnected" (try_recv),
                    \* "eos" (recv = None)
    \* ---- the two channels (websocket.rs:41-42)
    cmdq,           \* the commands in the command channel, oldest first
    updates,        \* the updates in the update channel, oldest first
    \* ---- the spawned task (websocket.rs:57-140)
    task,           \* "unspawned", "connecting", "running" (in the loop), "returning"
                    \* (websocket_task is returning: the connection and update_sender
                    \* have dropped, cmd_receiver has not yet), "finished"
    exit_reason,    \* why the task finished ("none" while it has not)
    subscriptions,  \* HashMap<Pubkey, u64>; NoSub for a key with no entry
    subscription_id_counter,
    awaiting,       \* the command whose request the task has handed to ws_sender.send
                    \* and whose send it is suspended in (NoCommand when in select!)
    \* ---- the connection
    ws_next,        \* what ws_receiver.next() is ready to yield (Pending when nothing)
    ws_open,        \* the connection can still carry outbound frames
    outbound,       \* history variable: every request passed to ws_sender.send, in order
    frame_log,      \* history variable: "none" no frame failed to decode yet, "failed"
                    \* one did, "failed_then_forwarded" an update was forwarded after that
    cmd_tick,       \* history variable: flips each time the loop takes a command
    \* ---- history variables of the delivery runs
    submitted,      \* the commands the command channel accepted, in order
    received,       \* the text frames the loop took from the connection, in order
    obtained,       \* the updates recv/try_recv returned to the caller, in order
    \* ---- TradingChart (chart.rs:112-126) with several venues
    price_histories,    \* HashMap<String, PriceHistory>; NoHistory for a venue without
    chart_log           \* history variable: the calls made on the chart, in order

histVars == <<points, candlesticks, max_size, timeframe_seconds, recorded, panicked,
              regenerated, change_24h>>
detVars  == <<opportunities, min_profit_threshold, lastPrices, prior_len>>
appVars  == <<client, connected, connect_call, new_result, last_submit, last_recv>>
taskVars == <<task, exit_reason, subscriptions, subscription_id_counter, awaiting>>
connVars == <<ws_next, ws_open, outbound, frame_log>>
logVars  == <<submitted, received, obtained>>
muxVars  == <<appVars, cmdq, updates, taskVars, connVars, cmd_tick, logVars>>
chartVars == <<price_histories, chart_log>>

vars == <<histVars, detVars, muxVars, chartVars>>

----------------------------------------------------------------------------
(* Bounds and input sets *)

\* the number of add_price_point calls explored on one history
MaxRecords == 3
\* the add_price_point calls of the runs on a history of capacity 10
MaxReplayRecords == 11

\* PriceHistory::new(max_size, timeframe_seconds) arguments explored.  The
\* candlestick capacity is max_size / 10, so 10 and 20 give room for 1 and 2
\* buckets and the capacities below 10 give none.
Capacities == {0, 1, 2, 10, 20}
Timeframes == {0, 2, 3}

Timestamps == {0, 1, 2, 4}
Prices     == {0, 1, 2}
Volumes    == {0, 1}

PricePoints == [timestamp : Timestamps, price : Prices, volume : Volumes]

\* The detector's inputs: two pairs, the first quoted by three venues and the
\* second by two; a venue reports one of the prices below or nothing.
Pairs == {"SOL/USDC", "ETH/USDC"}
VenuesOf(pair) ==
    IF pair = "SOL/USDC" THEN {"VenueA", "VenueB", "VenueC"} ELSE {"VenueA", "VenueB"}
PricesOf(pair) == IF pair = "SOL/USDC" THEN {100, 102} ELSE {0, 100}
Thresholds == {0, 1}
\* a venue that reports no price for a pair
NoPrice == -1

\* The multiplexer's inputs: the account keys commands and frames name
Keys == {"k1", "k2"}
\* the commands the command channel holds at most at one time
MaxQueue == 2
\* the requests passed to the connection at most (the id counter ends at MaxRequests + 1)
MaxRequests == 2
\* the updates forwarded to the update channel at most
MaxUpdates == 2
\* the requests of one connection in the runs of the command path alone
MaxTableRequests == 4
\* the text frames of one connection in the delivery runs
MaxFrames == 3
\* the commands accepted in the runs that keep them
MaxSubmitted == 4
\* the calls made on a chart with several venues
MaxChartCalls == 4

----------------------------------------------------------------------------
(* Helpers *)

\* the least element of a non-empty set of numbers
SetMinIndex(S) == CHOOSE x \in S : \A y \in S : x <= y

Min(a, b) == IF a <= b THEN a ELSE b
Max(a, b) == IF a >= b THEN a ELSE b

\* VecDeque::pop_front: removes the first element, a no-op on an empty deque
pop_front(q) == IF Len(q) = 0 THEN q ELSE Tail(q)

----------------------------------------------------------------------------
(* The multiplexer's data *)

\* subscriptions.get(key) = None: the ids start at 1 (websocket.rs:66)
NoSub == 0

\* websocket.rs:18-22 WebSocketCommand.  No function of the crate sends
\* Shutdown (the sender is private to the client, whose methods are subscribe
\* and unsubscribe), so the command channel only ever carries the other two.
Subscribe(k)   == [op |-> "Subscribe", key |-> k]
Unsubscribe(k) == [op |-> "Unsubscribe", key |-> k]
NoCommand      == [op |-> "none", key |-> "-"]

\* main.rs:91 and 112-128: the pools MyApp holds when it connects, by their
\* account keys: the one pool of MyApp::default, or two
SelectedPools == {<<"k1">>, <<"k1", "k2">>}

\* main.rs:283-288 and 416-417: where the Connect handler runs.  It makes a
\* Runtime of its own, blocks on connect_websocket and drops the Runtime when
\* it returns.
\*   "runtime_kept"     connect_websocket is awaited on a runtime that lives on
\*                      (a caller of the library crate)
\*   "runtime_dropped"  the handler runs outside any runtime: the task it
\*                      spawned is cancelled when the handler's Runtime drops
\*   "within_runtime"   the handler runs on a thread that is driving a runtime
\*                      (under #[tokio::main]): block_on panics
CallerContexts == {"runtime_kept", "runtime_dropped", "within_runtime"}

\* the Connect handler between two calls, and inside connect_websocket with
\* the pools of main.rs:150 not yet subscribed
NotConnecting == [active |-> FALSE, rest |-> <<>>]
Connecting(pools) == [active |-> TRUE, rest |-> pools]

\* An inbound text frame, by what handle_websocket_message reads of it:
\*   parses             serde_json::from_str succeeds
\*   params/result/value  msg.params, .result, .value exist
\*   data               value.data[0]: "absent", "not_base64", "not_whirlpool"
\*                      (decodes, but is no pool state) or "whirlpool"
\*   pubkey             value.pubkey: "absent", "unparseable" or an account key
\*   context, slot      where the frame carries {"context":{"slot":slot}}:
\*                      "none", beside value in "result", or inside "value"
Notification(d, k, c) ==
    [parses |-> TRUE, params |-> TRUE, result |-> TRUE, value |-> TRUE,
     data |-> d, pubkey |-> k, context |-> c, slot |-> 7]
NotJson ==
    [parses |-> FALSE, params |-> FALSE, result |-> FALSE, value |-> FALSE,
     data |-> "absent", pubkey |-> "absent", context |-> "none", slot |-> 0]
\* the reply to a request, {"jsonrpc":"2.0","result":n,"id":i}: no params
Acknowledgement == [NotJson EXCEPT !.parses = TRUE]

\* frames that carry a notification envelope and do not decode
UndecodableFrames ==
    { Notification("whirlpool", "absent", "result"),        \* no pubkey field
      Notification("absent", "k1", "result"),               \* no data field
      Notification("not_base64", "k1", "result"),
      Notification("whirlpool", "unparseable", "result"),
      Notification("not_whirlpool", "k1", "result") }
\* well-formed notifications of the documented shape
WellFormedFrames == {Notification("whirlpool", k, "result") : k \in Keys}
Frames == {NotJson, Acknowledgement} \cup UndecodableFrames \cup WellFormedFrames

\* what ws_receiver.next() yields (websocket.rs:114-134)
Text(f)   == [kind |-> "text", frame |-> f]
Pending   == [kind |-> "pending", frame |-> NotJson]
CloseItem == [kind |-> "close", frame |-> NotJson]
ErrorItem == [kind |-> "error", frame |-> NotJson]
EndItem   == [kind |-> "end", frame |-> NotJson]

\* what recv and try_recv return
NoUpdate == [pubkey |-> "-", slot |-> 0]
Received(status, u) == [status |-> status, update |-> u]

\* chart.rs:112-116: price_histories.get(venue) = None, and the venues a chart
\* is asked about
NoHistory == [points |-> <<>>, candlesticks |-> <<>>, max_size |-> -1,
              timeframe_seconds |-> -1]
ChartVenues == {"Whirlpool", "Raydium"}

\* the chart before any venue is registered (TradingChart::new)
ChartIdle ==
    /\ price_histories = [d \in ChartVenues |-> NoHistory]
    /\ chart_log = <<>>

\* the multiplexer before SolanaWebSocketClient::new
MuxIdle ==
    /\ client = "none" /\ connected = FALSE /\ new_result = "none"
    /\ connect_call = NotConnecting
    /\ last_submit = "none" /\ last_recv = Received("none", NoUpdate)
    /\ cmdq = <<>> /\ updates = <<>>
    /\ task = "unspawned" /\ exit_reason = "none"
    /\ subscriptions = [k \in Keys |-> NoSub]
    /\ subscription_id_counter = 1
    /\ awaiting = NoCommand
    /\ ws_next = Pending /\ ws_open = FALSE /\ outbound = <<>>
    /\ frame_log = "none" /\ cmd_tick = 0
    /\ submitted = <<>> /\ received = <<>> /\ obtained = <<>>

----------------------------------------------------------------------------
(* PriceHistory *)

\* price_data.rs:45-48: the point sequence after add_price_point
push_point_noevict(pts, cap, p) == Append(pts, p)
push_point(pts, cap, p) ==
    Append(IF Len(pts) >= cap THEN pop_front(pts) ELSE pts, p)

\* price_data.rs:55: the bucket start of a timestamp (timeframe > 0)
candle_timestamp_of_point(ts, tf) == ts
candle_timestamp(ts, tf) == (ts \div tf) * tf

\* price_data.rs:69-76
new_candle(ts, p) ==
    [timestamp |-> ts, open |-> p.price, high |-> p.price, low |-> p.price,
     close |-> p.price, volume |-> p.volume]

\* price_data.rs:60-63
merge_candle_overwrite_volume(c, p) ==
    [c EXCEPT !.high = Max(c.high, p.price), !.low = Min(c.low, p.price),
              !.close = p.price, !.volume = p.volume]
merge_candle_keep_high(c, p) ==
    [c EXCEPT !.low = Min(c.low, p.price),
              !.close = p.price, !.volume = c.volume + p.volume]
merge_candle(c, p) ==
    [c EXCEPT !.high = Max(c.high, p.price), !.low = Min(c.low, p.price),
              !.close = p.price, !.volume = c.volume + p.volume]

\* price_data.rs:54-82: the bucket sequence after update_candlestick, for a
\* timeframe > 0 (with timeframe 0 line 55 divides by zero and panics)
update_candlestick(cs, cap, tf, p) ==
    LET ts == candle_timestamp(p.timestamp, tf) IN
    IF Len(cs) > 0 /\ cs[Len(cs)].timestamp = ts
    THEN [cs EXCEPT ![Len(cs)] = merge_candle(cs[Len(cs)], p)]
    ELSE Append(IF Len(cs) >= cap \div 10 THEN pop_front(cs) ELSE cs,
                new_candle(ts, p))

\* the detector before ArbitrageDetector::new: not part of the History runs
DetectorIdle ==
    /\ opportunities = <<>>
    /\ min_profit_threshold = 0
    /\ lastPrices = <<>>
    /\ prior_len = 0

\* an Option<f64> result: None, or Some(num/den) with den = 0 standing for the
\* IEEE result of a division by zero (+inf or -inf by the sign of num, NaN
\* for num = 0)
NoneF64 == [kind |-> "None", num |-> 0, den |-> 1]
SomeF64(n, d) == [kind |-> "Some", num |-> n, den |-> d]
\* the answer r to a call for venue dex at clock time now
Answer(r, dex, now) ==
    [kind |-> r.kind, num |-> r.num, den |-> r.den, dex |-> dex, now |-> now]
Unasked == Answer([kind |-> "unasked", num |-> 0, den |-> 1], "-", 0)

\* the History before PriceHistory::new: not part of the Detector runs
HistoryIdle ==
    /\ points = <<>>
    /\ candlesticks = <<>>
    /\ max_size = 0
    /\ timeframe_seconds = 0
    /\ recorded = <<>>
    /\ panicked = FALSE
    /\ regenerated = FALSE
    /\ change_24h = Unasked

\* price_data.rs:34-41 PriceHistory::new
HistoryInit ==
    /\ DetectorIdle
    /\ MuxIdle
    /\ ChartIdle
    /\ max_size \in Capacities
    /\ timeframe_seconds \in Timeframes
    /\ points = <<>>
    /\ candlesticks = <<>>
    /\ recorded = <<>>
    /\ panicked = FALSE
    /\ regenerated = FALSE
    /\ change_24h = Unasked

\* price_data.rs:43-52 PriceHistory::add_price_point(p), in a run of at most
\* n calls
RecordWithin(p, n) ==
    /\ ~panicked
    /\ Len(recorded) < n
    /\ recorded' = Append(recorded, p)
    /\ points' = push_point(points, max_size, p)
    /\ IF timeframe_seconds = 0
       THEN panicked' = TRUE /\ UNCHANGED candlesticks
       ELSE /\ candlesticks' =
                   update_candlestick(candlesticks, max_size, timeframe_seconds, p)
            /\ UNCHANGED panicked
    /\ regenerated' = FALSE
    /\ UNCHANGED <<max_size, timeframe_seconds, change_24h>>
    /\ UNCHANGED <<detVars, muxVars, chartVars>>

Record(p) == RecordWithin(p, MaxRecords)

add_price_point == \E p \in PricePoints : Record(p)

HistoryNext == add_price_point

HistorySpec == HistoryInit /\ [][HistoryNext]_vars

\* chart.rs:25-34 TimeRange::to_seconds: the timeframes the chart can select
\* (60 to 86400 seconds in the source, all positive; scaled to the model's
\* timestamps)
RegenTimeframes == {2, 3}

\* chart.rs:368: history.candlesticks.clear()
keep_candlesticks(cs) == cs
clear_candlesticks(cs) == <<>>

\* chart.rs:371-373: update_candlestick for every retained point, oldest first
replay_last_only(cs, pts, cap, tf) ==
    IF pts = <<>> THEN cs ELSE update_candlestick(cs, cap, tf, pts[Len(pts)])
RECURSIVE replay(_, _, _, _)
replay(cs, pts, cap, tf) ==
    IF pts = <<>> THEN cs
    ELSE replay(update_candlestick(cs, cap, tf, Head(pts)), Tail(pts), cap, tf)

\* chart.rs:363-375 TradingChart::regenerate_candlesticks, on the one history
\* of the chart, after the time range was set (chart.rs:180-182)
regenerate_candlesticks ==
    \E tf \in RegenTimeframes :
        /\ ~panicked
        /\ timeframe_seconds' = tf
        /\ candlesticks' = replay(clear_candlesticks(candlesticks), points, max_size, tf)
        /\ regenerated' = TRUE
        /\ UNCHANGED <<points, max_size, recorded, panicked, change_24h>>
        /\ UNCHANGED <<detVars, muxVars, chartVars>>

HistoryRegenNext ==
    \/ add_price_point
    \/ regenerate_candlesticks

HistoryRegenSpec == HistoryInit /\ [][HistoryRegenNext]_vars

\* Longer runs on a history of capacity 10, which holds 10 points and 1
\* bucket: enough calls to evict a point, over two points that share a bucket
\* at timeframe 3 and not at timeframe 2.
ReplayCapacity == 10
ReplayPoints ==
    { [timestamp |-> 1, price |-> 1, volume |-> 1],
      [timestamp |-> 2, price |-> 2, volume |-> 1] }

ReplayInit ==
    /\ DetectorIdle
    /\ MuxIdle
    /\ ChartIdle
    /\ max_size = ReplayCapacity
    /\ timeframe_seconds \in RegenTimeframes
    /\ points = <<>>
    /\ candlesticks = <<>>
    /\ recorded = <<>>
    /\ panicked = FALSE
    /\ regenerated = FALSE
    /\ change_24h = Unasked

add_price_point_to_full == \E p \in ReplayPoints : RecordWithin(p, MaxReplayRecords)

ReplayNext ==
    \/ add_price_point_to_full
    \/ regenerate_candlesticks

ReplaySpec == ReplayInit /\ [][ReplayNext]_vars

\* price_data.rs:105: the length of the window in seconds
DaySeconds == 86400

\* The 24-hour change is asked of a chart holding one history, that of venue
\* "Whirlpool" (main.rs:105), at clock times that put the start of the window
\* at 0, 1, 2 and, beyond every timestamp recorded, 5.
Nows == {DaySeconds, DaySeconds + 1, DaySeconds + 2, DaySeconds + 5}
QueryCapacities == {1, 2, 10}
QueryPoints == {p \in PricePoints : p.volume = 0}

\* price_data.rs:96: if self.points.len() < 2
no_points(pts) == Len(pts) < 1
too_few_points(pts) == Len(pts) < 2

\* price_data.rs:107-110: the position of the first point at or after day_ago
\* (0 when there is none)
baseline_last_in_window(pts, day_ago) ==
    IF \E i \in 1..Len(pts) : pts[i].timestamp >= day_ago
    THEN Max(0, CHOOSE i \in 1..Len(pts) :
                   /\ pts[i].timestamp >= day_ago
                   /\ \A j \in (i + 1)..Len(pts) : pts[j].timestamp < day_ago)
    ELSE 0
baseline(pts, day_ago) ==
    IF \E i \in 1..Len(pts) : pts[i].timestamp >= day_ago
    THEN SetMinIndex({i \in 1..Len(pts) : pts[i].timestamp >= day_ago})
    ELSE 0

\* price_data.rs:114: ((current_price - old_price) / old_price) * 100.0
percentage_change(old_price, current_price) ==
    SomeF64((current_price - old_price) * 100, old_price)

\* price_data.rs:95-115 PriceHistory::get_price_change_24h at clock time now
get_price_change_24h(pts, now) ==
    IF too_few_points(pts) THEN NoneF64
    ELSE LET i == baseline(pts, now - DaySeconds) IN
         IF i = 0 THEN NoneF64
         ELSE percentage_change(pts[i].price, pts[Len(pts)].price)

\* chart.rs:383-387 TradingChart::get_price_change_24h(dex_name)
chart_price_change_24h(dex, pts, now) ==
    IF dex = "Whirlpool" THEN get_price_change_24h(pts, now) ELSE NoneF64

\* price_data.rs:34-41 PriceHistory::new and chart.rs:118-120 add_price_history
QueryInit ==
    /\ DetectorIdle
    /\ MuxIdle
    /\ ChartIdle
    /\ max_size \in QueryCapacities
    /\ timeframe_seconds = 3
    /\ points = <<>>
    /\ candlesticks = <<>>
    /\ recorded = <<>>
    /\ panicked = FALSE
    /\ regenerated = FALSE
    /\ change_24h = Unasked

\* chart.rs:122-126 update_price_point: a point is recorded
update_price_point == \E p \in QueryPoints : Record(p)

\* chart.rs:383-387 TradingChart::get_price_change_24h
price_change_24h ==
    \E dex \in ChartVenues, now \in Nows :
        /\ change_24h' = Answer(chart_price_change_24h(dex, points, now), dex, now)
        /\ UNCHANGED <<points, candlesticks, max_size, timeframe_seconds, recorded,
                       panicked, regenerated>>
        /\ UNCHANGED <<detVars, muxVars, chartVars>>

QueryNext ==
    \/ update_price_point
    \/ price_change_24h

QuerySpec == QueryInit /\ [][QueryNext]_vars

\* The chart with several venues: histories are registered and points are
\* recorded per venue.
ChartCapacities == {1, 10}
ChartTimeframes == {3}
ChartPoints ==
    {p \in PricePoints : p.timestamp \in {0, 4} /\ p.price \in {1, 2} /\ p.volume = 1}

\* price_data.rs:34-41 PriceHistory::new
new_history(cap, tf) ==
    [points |-> <<>>, candlesticks |-> <<>>, max_size |-> cap,
     timeframe_seconds |-> tf]

\* price_data.rs:43-52 add_price_point on the history h (timeframe > 0)
history_add_price_point(h, p) ==
    [h EXCEPT !.points = push_point(h.points, h.max_size, p),
              !.candlesticks = update_candlestick(h.candlesticks, h.max_size,
                                                  h.timeframe_seconds, p)]

\* chart.rs:122-126: if let Some(history) = self.price_histories.get_mut(dex_name)
record_or_create(hists, dex, p) ==
    [hists EXCEPT ![dex] =
        history_add_price_point(IF hists[dex] = NoHistory THEN new_history(10, 3)
                                                         ELSE hists[dex], p)]
record_if_registered(hists, dex, p) ==
    IF hists[dex] = NoHistory THEN hists
    ELSE [hists EXCEPT ![dex] = history_add_price_point(hists[dex], p)]

\* chart.rs:118-120 TradingChart::add_price_history(dex_name, history), with
\* a new history as in main.rs:105
add_price_history ==
    /\ Len(chart_log) < MaxChartCalls
    /\ \E dex \in ChartVenues, cap \in ChartCapacities, tf \in ChartTimeframes :
          /\ price_histories' = [price_histories EXCEPT ![dex] = new_history(cap, tf)]
          /\ chart_log' = Append(chart_log, [op |-> "add_price_history", dex |-> dex])
    /\ UNCHANGED <<histVars, detVars, muxVars>>

\* chart.rs:122-126 TradingChart::update_price_point(dex_name, point)
\* (main.rs:196)
update_price_point_of_venue ==
    /\ Len(chart_log) < MaxChartCalls
    /\ \E dex \in ChartVenues, p \in ChartPoints :
          /\ price_histories' = record_if_registered(price_histories, dex, p)
          /\ chart_log' = Append(chart_log, [op |-> "update_price_point", dex |-> dex])
    /\ UNCHANGED <<histVars, detVars, muxVars>>

ChartInit ==
    /\ HistoryIdle
    /\ DetectorIdle
    /\ MuxIdle
    /\ ChartIdle

ChartNext ==
    \/ add_price_history
    \/ update_price_point_of_venue

ChartSpec == ChartInit /\ [][ChartNext]_vars

----------------------------------------------------------------------------
(* ArbitrageDetector *)

\* An f64 quotient n/d kept exact; den = 0 is the IEEE result of dividing by
\* zero: +inf when num > 0, NaN when num = 0.
Frac(n, d) == [num |-> n, den |-> d]
IsNaN(a) == a.den = 0 /\ a.num = 0
IsInf(a) == a.den = 0 /\ a.num > 0

\* a < b on f64 (false when either is NaN)
FracLess(a, b) ==
    IF IsNaN(a) \/ IsNaN(b) THEN FALSE
    ELSE IF IsInf(a) THEN FALSE
    ELSE IF IsInf(b) THEN TRUE
    ELSE a.num * b.den < b.num * a.den

\* a = b on f64 (false when either is NaN)
FracEq(a, b) ==
    IF IsNaN(a) \/ IsNaN(b) THEN FALSE
    ELSE IF IsInf(a) \/ IsInf(b) THEN IsInf(a) /\ IsInf(b)
    ELSE a.num * b.den = b.num * a.den

\* a >= t on f64 for an integer-valued t (false for NaN, true for +inf)
FracGeInt(a, t) ==
    IF a.den = 0 THEN a.num > 0 ELSE a.num >= t * a.den

\* a stable insertion sort of (dex, price) entries, ascending by price: what
\* lib.rs:347 sort_by(|a, b| a.1.partial_cmp(&b.1).unwrap()) returns
RECURSIVE insert_by_price(_, _)
insert_by_price(sorted, e) ==
    IF sorted = <<>> THEN <<e>>
    ELSE IF e.price < Head(sorted).price THEN <<e>> \o sorted
    ELSE <<Head(sorted)>> \o insert_by_price(Tail(sorted), e)

RECURSIVE sort_by_price(_)
sort_by_price(entries) ==
    IF entries = <<>> THEN <<>>
    ELSE insert_by_price(sort_by_price(SubSeq(entries, 1, Len(entries) - 1)),
                         entries[Len(entries)])

\* a stable insertion sort of opportunities, descending by profit_percentage:
\* lib.rs:372-374
RECURSIVE insert_by_profit(_, _)
insert_by_profit(sorted, o) ==
    IF sorted = <<>> THEN <<o>>
    ELSE IF FracLess(Head(sorted).profit_percentage, o.profit_percentage)
         THEN <<o>> \o sorted
    ELSE <<Head(sorted)>> \o insert_by_profit(Tail(sorted), o)

RECURSIVE sort_by_profit(_)
sort_by_profit(opps) ==
    IF opps = <<>> THEN <<>>
    ELSE insert_by_profit(sort_by_profit(SubSeq(opps, 1, Len(opps) - 1)),
                          opps[Len(opps)])

\* lib.rs:353: (sell_price - buy_price) / buy_price * 100.0
profit_percentage(buy_price, sell_price) ==
    Frac((sell_price - buy_price) * 100, buy_price)

\* lib.rs:377-381: (profit_percentage / 10.0).min(1.0).max(0.0)
confidence_unclamped(profit) == Frac(profit.num, 10 * profit.den)
calculate_confidence_score(profit) ==
    IF IsInf(profit) THEN Frac(1, 1)
    ELSE IF profit.num >= 10 * profit.den THEN Frac(1, 1)
    ELSE IF profit.num <= 0 THEN Frac(0, 1)
    ELSE Frac(profit.num, 10 * profit.den)

\* lib.rs:355: the test that decides whether an opportunity is pushed
meets_threshold_strict(profit, threshold) ==
    FracGeInt(profit, threshold) /\ ~FracEq(profit, Frac(threshold, 1))
meets_threshold(profit, threshold) == FracGeInt(profit, threshold)

\* lib.rs:350-351: the buy and the sell side of a sorted entry vector
sell_side_second(vec) == vec[2]
sell_side(vec) == vec[Len(vec)]
buy_side_last(vec) == vec[Len(vec)]
buy_side(vec) == vec[1]

\* lib.rs:349: if dex_price_vec.len() >= 2
one_venue_suffices(vec) == Len(vec) >= 1
enough_venues(vec) == Len(vec) >= 2

\* lib.rs:343-368: the opportunities one pair contributes (none or one);
\* entries is dex_prices in the iteration order of the HashMap
pair_opportunities(token_pair, entries, threshold) ==
    LET dex_price_vec == sort_by_price(entries) IN
    IF enough_venues(dex_price_vec)
    THEN LET buy    == buy_side(dex_price_vec)
             sell   == sell_side(dex_price_vec)
             profit == profit_percentage(buy.price, sell.price)
         IN  IF meets_threshold(profit, threshold)
             THEN << [token_pair        |-> token_pair,
                      buy_dex           |-> buy.dex,
                      sell_dex          |-> sell.dex,
                      buy_price         |-> buy.price,
                      sell_price        |-> sell.price,
                      profit_percentage |-> profit,
                      confidence_score  |-> calculate_confidence_score(profit)] >>
             ELSE <<>>
    ELSE <<>>

\* lib.rs:342-369: the pushes of the loop over the pairs, in iteration order
RECURSIVE collect_opportunities(_, _)
collect_opportunities(view, threshold) ==
    IF view = <<>> THEN <<>>
    ELSE pair_opportunities(Head(view).pair, Head(view).entries, threshold)
         \o collect_opportunities(Tail(view), threshold)

\* lib.rs:338: self.opportunities.clear()
clear_nothing(opps) == opps
clear(opps) == <<>>

\* lib.rs:371-374: the final sort of the list
leave_unsorted(opps) == opps
sort_opportunities(opps) == sort_by_profit(opps)

\* lib.rs:334-375: the opportunity list after detect_opportunities(prices) on
\* a detector holding the list prior
detect_opportunities(prior, view, threshold) ==
    sort_opportunities(clear(prior) \o collect_opportunities(view, threshold))

\* All the sequences without repetition over the elements of S: the orders in
\* which a HashMap holding any subset of the keys S may iterate.
RECURSIVE Arrangements(_)
Arrangements(S) ==
    {<<>>} \cup UNION {{<<x>> \o a : a \in Arrangements(S \ {x})} : x \in S}

\* the inner HashMap<String, f64> of a pair, as its iteration sequences
InnerViews(pair) ==
    UNION {{[i \in 1..Len(vs) |-> [dex |-> vs[i], price |-> ps[i]]] :
                ps \in [1..Len(vs) -> PricesOf(pair)]} :
           vs \in Arrangements(VenuesOf(pair))}

\* the outer HashMap, as its iteration sequences over both pairs
PriceViews ==
    {[i \in 1..Len(order) |-> [pair |-> order[i], entries |-> inner[order[i]]]] :
        order \in {o \in Arrangements(Pairs) : Len(o) = Cardinality(Pairs)},
        inner \in [Pairs -> UNION {InnerViews(p) : p \in Pairs}]}

ValidViews ==
    {v \in PriceViews : \A i \in 1..Len(v) : v[i].entries \in InnerViews(v[i].pair)}

\* the price a venue reports for a pair in a view (NoPrice when none)
PriceIn(view, pair, dex) ==
    IF \E i \in 1..Len(view) : view[i].pair = pair
    THEN LET i == CHOOSE i \in 1..Len(view) : view[i].pair = pair
             e == view[i].entries
         IN  IF \E j \in 1..Len(e) : e[j].dex = dex
             THEN e[CHOOSE j \in 1..Len(e) : e[j].dex = dex].price
             ELSE NoPrice
    ELSE NoPrice

\* the map a view iterates over: pair -> venue -> price
MapOf(view) ==
    [pair \in Pairs |-> [dex \in VenuesOf(pair) |-> PriceIn(view, pair, dex)]]

\* lib.rs:326-332 ArbitrageDetector::new
DetectorInit ==
    /\ HistoryIdle
    /\ MuxIdle
    /\ ChartIdle
    /\ opportunities = <<>>
    /\ min_profit_threshold \in Thresholds
    /\ lastPrices = <<>>
    /\ prior_len = 0

\* lib.rs:334-375 ArbitrageDetector::detect_opportunities
Detect ==
    \E view \in ValidViews :
        /\ opportunities' =
               detect_opportunities(opportunities, view, min_profit_threshold)
        /\ lastPrices' = MapOf(view)
        /\ UNCHANGED <<min_profit_threshold, prior_len>>
        /\ UNCHANGED <<histVars, muxVars, chartVars>>

DetectorNext == Detect

DetectorSpec == DetectorInit /\ [][DetectorNext]_vars

\* Runs of several detect calls on one detector, over wider prices and
\* thresholds: VenueA and VenueB quote each pair, a map may lack a pair, and
\* each HashMap, inner and outer, iterates in any order of its keys.
SeqPricesOf(pair) == IF pair = "SOL/USDC" THEN {100, 102, 110} ELSE {0, 100}
SeqThresholds == {-1, 0, 5}
SeqVenueOrders == {<<>>, <<"VenueA">>, <<"VenueB">>, <<"VenueA", "VenueB">>,
                   <<"VenueB", "VenueA">>}
SeqInnerViews(pair) ==
    UNION {{[i \in 1..Len(vs) |-> [dex |-> vs[i], price |-> ps[i]]] :
                ps \in [1..Len(vs) -> SeqPricesOf(pair)]} :
           vs \in SeqVenueOrders}
SeqViews ==
    {<<>>}
    \cup {<<[pair |-> p, entries |-> e]>> : p \in {"SOL/USDC"}, e \in SeqInnerViews("SOL/USDC")}
    \cup {<<[pair |-> p, entries |-> e]>> : p \in {"ETH/USDC"}, e \in SeqInnerViews("ETH/USDC")}
    \cup {<<[pair |-> "SOL/USDC", entries |-> e1], [pair |-> "ETH/USDC", entries |-> e2]>> :
              e1 \in SeqInnerViews("SOL/USDC"), e2 \in SeqInnerViews("ETH/USDC")}
    \cup {<<[pair |-> "ETH/USDC", entries |-> e2], [pair |-> "SOL/USDC", entries |-> e1]>> :
              e1 \in SeqInnerViews("SOL/USDC"), e2 \in SeqInnerViews("ETH/USDC")}

\* lib.rs:326-332 ArbitrageDetector::new
DetectorSeqInit ==
    /\ HistoryIdle
    /\ MuxIdle
    /\ ChartIdle
    /\ opportunities = <<>>
    /\ min_profit_threshold \in SeqThresholds
    /\ lastPrices = <<>>
    /\ prior_len = 0

\* lib.rs:334-375 ArbitrageDetector::detect_opportunities, called again and
\* again on the same detector
DetectAgain ==
    \E view \in SeqViews :
        /\ opportunities' =
               detect_opportunities(opportunities, view, min_profit_threshold)
        /\ lastPrices' = MapOf(view)
        /\ prior_len' = Len(opportunities)
        /\ UNCHANGED min_profit_threshold
        /\ UNCHANGED <<histVars, muxVars, chartVars>>

DetectorSeqNext == DetectAgain

DetectorSeqSpec == DetectorSeqInit /\ [][DetectorSeqNext]_vars

----------------------------------------------------------------------------
(* The subscription multiplexer: SolanaWebSocketClient and its task *)

\* the task holds cmd_receiver and update_sender from the spawn (websocket.rs:
\* 45-49) until websocket_task returns; the return drops the parameters of
\* websocket.rs:58-60 last declared first, update_sender before cmd_receiver
cmd_receiver_alive(t) == t \in {"connecting", "running", "returning"}
update_sender_kept(t) == TRUE
update_sender_alive(t) == t \in {"connecting", "running"}

\* websocket.rs:190-196: UnboundedSender::send fails only on a closed channel
send_command(receiver_alive) == IF receiver_alive THEN "Ok" ELSE "Err"

\* websocket.rs:74-85 and 95-100: the requests.  key is the account the
\* command named (the first of params in a subscribe request; not on the wire
\* in an unsubscribe request, whose params are [sub_id]).
subscription_request(id, key) ==
    [id |-> id, method |-> "accountSubscribe", key |-> key, sub_id |-> NoSub]
unsubscribe_request_own_id(id, sub_id, key) ==
    [id |-> id, method |-> "accountUnsubscribe", key |-> key, sub_id |-> id]
unsubscribe_request(id, sub_id, key) ==
    [id |-> id, method |-> "accountUnsubscribe", key |-> key, sub_id |-> sub_id]

\* websocket.rs:94: "if let Some(&sub_id) = subscriptions.get(&account)", the
\* table holding NoSub for a key without an entry
has_entry_always(subs, key) == TRUE
has_entry(subs, key) == subs[key] # NoSub

\* websocket.rs:89 subscriptions.insert(account, id): the entry of the key is
\* set, an earlier one overwritten
insert_if_absent(subs, key, id) ==
    IF subs[key] # NoSub THEN subs ELSE [subs EXCEPT ![key] = id]
insert_first_id(subs, key, id) == [subs EXCEPT ![key] = 1]
insert(subs, key, id) == [subs EXCEPT ![key] = id]

\* websocket.rs:104 subscriptions.remove(&account)
remove(subs, key) == [subs EXCEPT ![key] = NoSub]

\* websocket.rs:90 and 105: subscription_id_counter += 1
next_id_skipping(counter) == counter + 2
next_id(counter) == counter + 1

\* websocket.rs:88 and 103: ws_sender.send returns Ok when the request went
\* out and Err when it did not, which the sink may report on a connection the
\* loop still holds open as well as on a closed one; the result is dropped
\* ("let _ =").
SendOutcomes == {TRUE, FALSE}
Passed(req, ok) ==
    [id |-> req.id, method |-> req.method, key |-> req.key,
     sub_id |-> req.sub_id, delivered |-> ok]

\* websocket.rs:142-188: the result of handle_websocket_message and the
\* update it sends (none or one)
Handled(res, ups) == [result |-> res, updates |-> ups]
\* websocket.rs:159 and 168-178: the update built from a decoding frame; the
\* account is the frame's value.pubkey, the slot is read from value.context
\* and is 0 when value has no context.slot
price_update_other_account(f) ==
    [pubkey |-> CHOOSE k \in Keys : k # f.pubkey,
     slot   |-> IF f.context = "value" THEN f.slot ELSE 0]
price_update(f) ==
    [pubkey |-> f.pubkey,
     slot   |-> IF f.context = "value" THEN f.slot ELSE 0]
handle_websocket_message_any_bytes(f) ==
    IF f.parses /\ f.params /\ f.result /\ f.value /\ f.pubkey \in Keys
                /\ f.data \in {"not_whirlpool", "whirlpool"}
    THEN Handled("Ok", << [pubkey |-> f.pubkey, slot |-> 0] >>)
    ELSE Handled(IF f.parses THEN "Ok" ELSE "Err", <<>>)
handle_websocket_message(f) ==
    IF ~f.parses THEN Handled("Err", <<>>)                                \* :147
    ELSE IF ~(f.params /\ f.result /\ f.value) THEN Handled("Ok", <<>>)   \* :150-152
    ELSE IF f.data = "absent" \/ f.pubkey = "absent" THEN Handled("Ok", <<>>) \* :153-156
    ELSE IF f.data = "not_base64" THEN Handled("Err", <<>>)               \* :158
    ELSE IF f.pubkey = "unparseable" THEN Handled("Err", <<>>)            \* :159
    ELSE IF f.data # "whirlpool" THEN Handled("Ok", <<>>)                 \* :162
    ELSE Handled("Ok", << price_update(f) >>)                             \* :163-180

\* websocket.rs:180 update_sender.send(update): the update goes to the back of
\* the unbounded channel
send_update_to_front(queue, ups) == ups \o queue
send_update(queue, ups) == queue \o ups

\* websocket.rs:117-123: an Err of handle_websocket_message is printed, and
\* the loop goes on whatever the result
continues_after_ok_only(result) == result = "Ok"
continues_after_handling(result) == TRUE

\* websocket.rs:115-134: whether the loop goes on after an inbound item
continues_after_close(kind) == kind \in {"text", "close"}
continues_after(kind) == kind = "text"

\* websocket.rs:71 and 114 in tokio::select! (no "biased;"): the branches that
\* are ready; select! takes any one of them
command_ready == cmdq # <<>> \/ client = "dropped"
inbound_ready == ws_next.kind # "pending"

\* the frame log after a text frame was handled
next_frame_log(f, forwarded) ==
    IF forwarded
    THEN IF frame_log = "none" THEN "none" ELSE "failed_then_forwarded"
    ELSE IF f \in UndecodableFrames /\ frame_log = "none" THEN "failed"
    ELSE frame_log

MuxInit ==
    /\ HistoryIdle
    /\ DetectorIdle
    /\ MuxIdle
    /\ ChartIdle

\* websocket.rs:62 "?" and 139: websocket_task leaves the loop (or never
\* entered it) and returns; its locals drop, the connection among them, and
\* then update_sender.  cmd_receiver drops after that, in a step of its own
\* (drop_cmd_receiver), before which the caller's thread may run.
Returns(reason) ==
    /\ task' = "returning"
    /\ exit_reason' = reason
    /\ ws_open' = FALSE
    /\ ws_next' = Pending

\* main.rs:288: the Runtime of main.rs:284 drops with the task suspended at an
\* await; the task is dropped whole before the drop of the Runtime returns
Finish(reason) ==
    /\ task' = "finished"
    /\ exit_reason' = reason
    /\ ws_open' = FALSE
    /\ ws_next' = Pending

\* main.rs:283-287 Connect, up to the return of websocket.rs:40-55 new in
\* main.rs:147.  The handler is offered whenever the application is not
\* connected (main.rs:277-283), also while the task of a client dropped before
\* is still running.  Under #[tokio::main] block_on panics.  Otherwise new
\* makes two fresh channels, spawns the task and returns Ok(client) at once:
\* the connection is opened later, by the task, which from here on runs beside
\* connect_websocket (its steps are connect_ok, connect_failed and those of
\* the loop).
\* From this step on the variables describe the new client, its channels and
\* its task: a task left running by an earlier client shares no channel, table
\* or connection with them, and the application can no longer reach it.
connect_new ==
    /\ ~connected
    /\ ~connect_call.active
    /\ new_result # "panic"
    /\ \E ctx \in CallerContexts, pools \in SelectedPools :
          IF ctx = "within_runtime"
          THEN /\ new_result' = "panic"                       \* main.rs:286
               /\ UNCHANGED <<client, connected, connect_call, last_submit,
                              last_recv, cmdq, updates, taskVars, connVars,
                              cmd_tick, logVars>>
          ELSE /\ new_result' = "Ok"
               /\ client' = "held"
               /\ connect_call' = Connecting(pools)
               /\ cmdq' = <<>> /\ updates' = <<>>                   \* :41-42
               /\ task' = "connecting" /\ exit_reason' = "none"     \* :45
               /\ subscriptions' = [k \in Keys |-> NoSub]
               /\ subscription_id_counter' = 1
               /\ awaiting' = NoCommand
               /\ ws_next' = Pending /\ ws_open' = FALSE
               /\ outbound' = <<>> /\ frame_log' = "none"
               /\ cmd_tick' = 0
               /\ submitted' = <<>> /\ received' = <<>> /\ obtained' = <<>>
               /\ last_submit' = "none"
               /\ last_recv' = Received("none", NoUpdate)
               /\ UNCHANGED connected
    /\ UNCHANGED <<histVars, detVars, chartVars>>

\* websocket.rs:191 and 195: an accepted command goes to the back of the
\* unbounded command channel
enqueue_at_front(queue, cmd) == <<cmd>> \o queue
enqueue(queue, cmd) == Append(queue, cmd)

\* main.rs:150-154: the subscribe call for the next selected pool.  A call
\* made after the task has ended finds the command channel closed; its Err is
\* only printed.
connect_subscribe ==
    /\ connect_call.active
    /\ connect_call.rest # <<>>
    /\ LET cmd == Subscribe(Head(connect_call.rest))
           res == send_command(cmd_receiver_alive(task))
       IN  /\ cmdq' = IF res = "Ok" THEN enqueue(cmdq, cmd) ELSE cmdq
           /\ submitted' = IF res = "Ok" THEN Append(submitted, cmd) ELSE submitted
    /\ connect_call' = Connecting(Tail(connect_call.rest))
    /\ UNCHANGED <<client, connected, new_result, last_submit, last_recv,
                   updates, taskVars, connVars, cmd_tick, received, obtained>>
    /\ UNCHANGED <<histVars, detVars, chartVars>>

\* main.rs:156-158 and 288: connect_websocket keeps the client, marks itself
\* connected and returns, and the handler ends.  Where the handler made the
\* Runtime (main.rs:284) the Runtime drops here, and a task that has not
\* ended is cancelled at the await it is suspended in (connect_async, select!
\* or a send), while a task that is returning ends its return, the drop of
\* the Runtime waiting for its workers; where connect_websocket was awaited on
\* a runtime that lives on, the task goes on.  No step before this one depends
\* on which it is.
connect_returns ==
    /\ connect_call.active
    /\ connect_call.rest = <<>>
    /\ connected' = TRUE
    /\ connect_call' = NotConnecting
    /\ \E ctx \in CallerContexts \ {"within_runtime"} :
          IF ctx = "runtime_dropped" /\ task \in {"connecting", "running"}
          THEN Finish("cancelled")
          ELSE IF ctx = "runtime_dropped" /\ task = "returning"
          THEN Finish(exit_reason)
          ELSE UNCHANGED <<task, exit_reason, ws_open, ws_next>>
    /\ UNCHANGED <<client, new_result, last_submit, last_recv, cmdq, updates,
                   subscriptions, subscription_id_counter, awaiting, outbound,
                   frame_log, cmd_tick, logVars>>
    /\ UNCHANGED <<histVars, detVars, chartVars>>

\* main.rs:146-165 and 283-288
connect_websocket ==
    \/ connect_new
    \/ connect_subscribe
    \/ connect_returns

\* a command handed to self.sender.send (logged: the run keeps the history
\* variable submitted)
SubmitWith(cmd, logged) ==
    /\ client = "held"
    /\ ~connect_call.active
    /\ Len(cmdq) < MaxQueue
    /\ last_submit' = send_command(cmd_receiver_alive(task))
    /\ cmdq' = IF last_submit' = "Ok" THEN enqueue(cmdq, cmd) ELSE cmdq
    /\ submitted' = IF logged /\ last_submit' = "Ok"
                    THEN Append(submitted, cmd) ELSE submitted
    /\ UNCHANGED <<client, connected, connect_call, new_result, last_recv,
                   updates, taskVars, connVars, cmd_tick, received, obtained>>
    /\ UNCHANGED <<histVars, detVars, chartVars>>

Submit(cmd) == SubmitWith(cmd, FALSE)

\* websocket.rs:190-192
subscribe ==
    /\ Len(outbound) + Len(cmdq) < MaxRequests
    /\ \E k \in Keys : Submit(Subscribe(k))

\* websocket.rs:194-196
unsubscribe ==
    /\ Len(outbound) + Len(cmdq) < MaxRequests
    /\ \E k \in Keys : Submit(Unsubscribe(k))

\* main.rs:278-282 Disconnect: the client is dropped, and with it the only
\* command sender and the update receiver with the updates it still held
disconnect ==
    /\ client = "held"
    /\ ~connect_call.active
    /\ client' = "dropped"
    /\ connected' = FALSE
    /\ updates' = <<>>
    /\ UNCHANGED <<connect_call, new_result, last_submit, last_recv, cmdq,
                   taskVars, connVars, cmd_tick>>
    /\ UNCHANGED <<histVars, detVars, logVars, chartVars>>

\* websocket.rs:202-204 try_recv (main.rs:226)
\* (logged: the run keeps the history variable obtained)
TryRecv(logged) ==
    /\ client = "held"
    /\ ~connect_call.active
    /\ IF updates # <<>>
       THEN /\ last_recv' = Received("update", Head(updates))
            /\ updates' = Tail(updates)
       ELSE /\ last_recv' = Received(IF update_sender_alive(task)
                                     THEN "empty" ELSE "disconnected", NoUpdate)
            /\ UNCHANGED updates
    /\ obtained' = IF logged /\ updates # <<>>
                   THEN Append(obtained, Head(updates)) ELSE obtained
    /\ UNCHANGED <<client, connected, connect_call, new_result, last_submit,
                   cmdq, taskVars, connVars, cmd_tick, submitted, received>>
    /\ UNCHANGED <<histVars, detVars, chartVars>>

try_recv == TryRecv(FALSE)

\* websocket.rs:198-200 recv: waits while the channel is empty and open
Recv(logged) ==
    /\ client = "held"
    /\ ~connect_call.active
    /\ updates # <<>> \/ ~update_sender_alive(task)
    /\ IF updates # <<>>
       THEN /\ last_recv' = Received("update", Head(updates))
            /\ updates' = Tail(updates)
       ELSE /\ last_recv' = Received("eos", NoUpdate)
            /\ UNCHANGED updates
    /\ obtained' = IF logged /\ updates # <<>>
                   THEN Append(obtained, Head(updates)) ELSE obtained
    /\ UNCHANGED <<client, connected, connect_call, new_result, last_submit,
                   cmdq, taskVars, connVars, cmd_tick, submitted, received>>
    /\ UNCHANGED <<histVars, detVars, chartVars>>

recv == Recv(FALSE)

\* websocket.rs:62-66: connect_async succeeded; the loop starts
connect_ok ==
    /\ task = "connecting"
    /\ task' = "running"
    /\ ws_open' = TRUE
    /\ UNCHANGED <<appVars, cmdq, updates, exit_reason, subscriptions,
                   subscription_id_counter, awaiting, ws_next, outbound,
                   frame_log, cmd_tick>>
    /\ UNCHANGED <<histVars, detVars, logVars, chartVars>>

\* websocket.rs:62 "?" and 46-48: connect_async failed; the task logs and ends
connect_failed ==
    /\ task = "connecting"
    /\ Returns("connect_error")
    /\ UNCHANGED <<appVars, cmdq, updates, subscriptions, subscription_id_counter,
                   awaiting, outbound, frame_log, cmd_tick>>
    /\ UNCHANGED <<histVars, detVars, logVars, chartVars>>

\* websocket.rs:59: the return of websocket_task drops cmd_receiver, the last
\* of the two channel ends it held; the command channel is closed from here on
drop_cmd_receiver ==
    /\ task = "returning"
    /\ task' = "finished"
    /\ UNCHANGED <<appVars, cmdq, updates, exit_reason, subscriptions,
                   subscription_id_counter, awaiting, connVars, cmd_tick>>
    /\ UNCHANGED <<histVars, detVars, logVars, chartVars>>

\* websocket.rs:71-111: the select! branch of cmd_receiver.recv(), up to the
\* await of ws_sender.send (88, 103): the request is built with the counter's
\* value and handed to the sink, and the task is suspended in the send.  A
\* command that sends nothing is handled whole.
handle_command ==
    /\ task = "running"
    /\ awaiting = NoCommand
    /\ command_ready
    /\ cmd_tick' = 1 - cmd_tick
    /\ \/ /\ cmdq # <<>> /\ Head(cmdq).op = "Subscribe"                 \* :73-88
          /\ outbound' = Append(outbound,
                Passed(subscription_request(subscription_id_counter,
                                            Head(cmdq).key), FALSE))
          /\ awaiting' = Head(cmdq)
          /\ cmdq' = Tail(cmdq)
          /\ UNCHANGED <<task, exit_reason, subscriptions,
                         subscription_id_counter, ws_next, ws_open>>
       \/ /\ cmdq # <<>> /\ Head(cmdq).op = "Unsubscribe"               \* :93-103
          /\ has_entry(subscriptions, Head(cmdq).key)
          /\ outbound' = Append(outbound,
                Passed(unsubscribe_request(subscription_id_counter,
                                           subscriptions[Head(cmdq).key],
                                           Head(cmdq).key), FALSE))
          /\ awaiting' = Head(cmdq)
          /\ cmdq' = Tail(cmdq)
          /\ UNCHANGED <<task, exit_reason, subscriptions,
                         subscription_id_counter, ws_next, ws_open>>
       \/ /\ cmdq # <<>> /\ Head(cmdq).op = "Unsubscribe"               \* :94, 107
          /\ ~has_entry(subscriptions, Head(cmdq).key)
          /\ cmdq' = Tail(cmdq)
          /\ UNCHANGED <<taskVars, ws_next, ws_open, outbound>>
       \/ /\ IF cmdq = <<>> THEN TRUE ELSE Head(cmdq).op = "Shutdown"    \* :109
          /\ Returns(IF cmdq = <<>> THEN "commands_closed" ELSE "shutdown")
          /\ cmdq' = IF cmdq = <<>> THEN cmdq ELSE Tail(cmdq)
          /\ UNCHANGED <<subscriptions, subscription_id_counter, awaiting,
                         outbound>>
    /\ UNCHANGED <<appVars, updates, frame_log>>
    /\ UNCHANGED <<histVars, detVars, logVars, chartVars>>

\* websocket.rs:88-90 and 103-105: ws_sender.send returns, with a result that
\* is dropped; the table is updated, the counter advanced, and the task is
\* back in select!.  The request in flight is the last one passed to the sink.
send_returns ==
    /\ task = "running"
    /\ awaiting # NoCommand
    /\ \E ok \in SendOutcomes :
          outbound' = [outbound EXCEPT ![Len(outbound)].delivered = ok]
    /\ subscriptions' =
          IF awaiting.op = "Subscribe"
          THEN insert(subscriptions, awaiting.key, subscription_id_counter)
          ELSE remove(subscriptions, awaiting.key)
    /\ subscription_id_counter' = next_id(subscription_id_counter)
    /\ awaiting' = NoCommand
    /\ UNCHANGED <<appVars, cmdq, updates, task, exit_reason, ws_next, ws_open,
                   frame_log, cmd_tick>>
    /\ UNCHANGED <<histVars, detVars, logVars, chartVars>>

\* websocket.rs:114-135: the select! branch of ws_receiver.next(); select! is
\* not polled while the task is suspended in a send
\* (logged: the run keeps the history variable received)
HandleInbound(logged) ==
    /\ task = "running"
    /\ awaiting = NoCommand
    /\ inbound_ready
    /\ \/ /\ ws_next.kind = "text"                                      \* :116-124
          /\ LET r == handle_websocket_message(ws_next.frame)
                 forwarded == r.updates # <<>> /\ client = "held"       \* :180
             IN  /\ updates' = IF forwarded THEN send_update(updates, r.updates)
                                             ELSE updates
                 /\ frame_log' = next_frame_log(ws_next.frame, forwarded)
                 /\ IF continues_after_handling(r.result)               \* :117-123
                    THEN ws_next' = Pending
                         /\ UNCHANGED <<task, exit_reason, ws_open>>
                    ELSE Returns("handler_error")
          /\ received' = IF logged THEN Append(received, ws_next.frame)
                                   ELSE received
       \/ /\ ws_next.kind # "text"                                      \* :125-133
          /\ IF continues_after(ws_next.kind)
             THEN ws_next' = Pending /\ UNCHANGED <<task, exit_reason, ws_open>>
             ELSE Returns(ws_next.kind)
          /\ UNCHANGED <<updates, frame_log, received>>
    /\ UNCHANGED <<appVars, cmdq, subscriptions, subscription_id_counter, awaiting,
                   outbound, cmd_tick, submitted, obtained>>
    /\ UNCHANGED <<histVars, detVars, chartVars>>

handle_inbound == HandleInbound(FALSE)

\* the peer: the next inbound item becomes ready
Arrives(item) ==
    /\ task = "running"
    /\ ws_open
    /\ ws_next = Pending
    /\ ws_next' = item
    /\ ws_open' = (item.kind = "text")
    /\ UNCHANGED <<appVars, cmdq, updates, taskVars, outbound, frame_log,
                   cmd_tick>>
    /\ UNCHANGED <<histVars, detVars, logVars, chartVars>>

\* a text frame that yields no update arrives
frame_arrives ==
    \E f \in Frames \ WellFormedFrames : Arrives(Text(f))

\* a well-formed notification arrives
notification_arrives ==
    /\ Len(updates) < MaxUpdates
    /\ \E f \in WellFormedFrames : Arrives(Text(f))

\* the peer closes (Message::Close), the connection fails (Some(Err)) or the
\* inbound stream ends (None)
connection_ends ==
    \/ Arrives(CloseItem)
    \/ Arrives(ErrorItem)
    \/ Arrives(EndItem)

Next ==
    \/ connect_websocket
    \/ subscribe
    \/ unsubscribe
    \/ disconnect
    \/ try_recv
    \/ recv
    \/ connect_ok
    \/ connect_failed
    \/ drop_cmd_receiver
    \/ handle_command
    \/ send_returns
    \/ handle_inbound
    \/ frame_arrives
    \/ notification_arrives
    \/ connection_ends

Spec == MuxInit /\ [][Next]_vars

\* The command path by itself, for longer runs of requests on a connection
\* that stays open and silent: the client subscribes and unsubscribes, the task
\* handles the commands.
subscribe_on_open ==
    /\ Len(outbound) + Len(cmdq) < MaxTableRequests
    /\ \E k \in Keys : Submit(Subscribe(k))

unsubscribe_on_open ==
    /\ Len(outbound) + Len(cmdq) < MaxTableRequests
    /\ \E k \in Keys : Submit(Unsubscribe(k))

TableNext ==
    \/ connect_websocket
    \/ connect_ok
    \/ connect_failed
    \/ drop_cmd_receiver
    \/ subscribe_on_open
    \/ unsubscribe_on_open
    \/ handle_command
    \/ send_returns
    \/ disconnect

TableSpec == MuxInit /\ [][TableNext]_vars

\* The command channel, for runs that keep the commands accepted: the client
\* submits commands while the loop handles them, and the connection may end
\* with commands still queued.
subscribe_logged ==
    /\ Len(submitted) < MaxSubmitted
    /\ \E k \in Keys : SubmitWith(Subscribe(k), TRUE)

unsubscribe_logged ==
    /\ Len(submitted) < MaxSubmitted
    /\ \E k \in Keys : SubmitWith(Unsubscribe(k), TRUE)

CommandNext ==
    \/ connect_websocket
    \/ connect_ok
    \/ connect_failed
    \/ drop_cmd_receiver
    \/ subscribe_logged
    \/ unsubscribe_logged
    \/ handle_command
    \/ send_returns
    \/ disconnect
    \/ connection_ends
    \/ handle_inbound

CommandSpec == MuxInit /\ [][CommandNext]_vars

\* The delivery path, for runs that keep the frames taken and the updates
\* returned: frames of more shapes arrive, the notifications among them with
\* their slot in the places a frame can carry it.
NotificationAt(d, k, c, slot) == [Notification(d, k, c) EXCEPT !.slot = slot]
\* a notification of another kind, {"params":{"result":{...}}} without "value"
Unrelated == [Acknowledgement EXCEPT !.params = TRUE, !.result = TRUE]
\* the documented shape: {"context":{"slot":s}} beside "value" in "result"
DocumentedFrames == {NotificationAt("whirlpool", "k1", "result", 7)}
DeliveryFrames ==
    {NotJson, Acknowledgement, Unrelated}
        \cup DocumentedFrames
        \cup {NotificationAt("whirlpool", "k1", "value", 7)}
        \cup {NotificationAt("whirlpool", "k2", "none", 0)}

text_arrives ==
    /\ Len(received) < MaxFrames
    /\ \E f \in DeliveryFrames : Arrives(Text(f))

handle_inbound_logged == HandleInbound(TRUE)
try_recv_logged == TryRecv(TRUE)
recv_logged == Recv(TRUE)

DeliveryNext ==
    \/ connect_websocket
    \/ connect_ok
    \/ connect_failed
    \/ drop_cmd_receiver
    \/ handle_command
    \/ send_returns
    \/ text_arrives
    \/ connection_ends
    \/ handle_inbound_logged
    \/ try_recv_logged
    \/ recv_logged
    \/ disconnect

DeliverySpec == MuxInit /\ [][DeliveryNext]_vars

\* Fair scheduling.  The runtime keeps polling the task, and tokio::select!
\* (websocket.rs:69, no "biased;") polls its branches starting from one chosen
\* at random each time, so a branch that is ready again and again when select!
\* is polled is taken.  Scheduling says nothing of a send the task is
\* suspended in (websocket.rs:88, 103): it returns when the transport has
\* taken the frame or failed, and the code sets no time limit on it.
FairSpec ==
    /\ MuxInit /\ [][Next]_vars
    /\ SF_vars(handle_command) /\ SF_vars(handle_inbound)

----------------------------------------------------------------------------
(* Claims about the History *)

\* the last n elements of a sequence (all of it when it has fewer)
LastN(s, n) == IF Len(s) <= n THEN s ELSE SubSeq(s, Len(s) - n + 1, Len(s))

\* C1: for every capacity N the point sequence never holds more than N points,
\* and once more than N points were recorded the retained points are exactly
\* the N most recently recorded ones, in their original order.
C1_Bounded ==
    ~panicked =>
    /\ Len(points) <= max_size
    /\ Len(recorded) > max_size => points = LastN(recorded, max_size)

\* C1 restricted to the capacities N >= 1, where the code keeps it
C1_PositiveCapacity == max_size >= 1 => C1_Bounded

\* the recorded points were recorded with non-decreasing timestamps
Monotone ==
    \A i \in 1..Len(recorded) - 1 :
        recorded[i].timestamp <= recorded[i + 1].timestamp

\* the indices (into recorded) of the points whose bucket start is b
Group(b) ==
    {i \in 1..Len(recorded) :
        (recorded[i].timestamp \div timeframe_seconds) * timeframe_seconds = b}

SetMin(S) == CHOOSE x \in S : \A y \in S : x <= y
SetMax(S) == CHOOSE x \in S : \A y \in S : x >= y

RECURSIVE SumVolume(_)
SumVolume(S) ==
    IF S = {} THEN 0
    ELSE LET i == SetMin(S) IN recorded[i].volume + SumVolume(S \ {i})

\* the bucket that aggregates all the recorded points of Group(b)
Aggregate(b) ==
    LET g == Group(b) IN
    [timestamp |-> b,
     open   |-> recorded[SetMin(g)].price,
     close  |-> recorded[SetMax(g)].price,
     high   |-> SetMax({recorded[i].price : i \in g}),
     low    |-> SetMin({recorded[i].price : i \in g}),
     volume |-> SumVolume(g)]

\* every bucket held aggregates all the recorded points that share its bucket
\* start, and no two buckets held share a bucket start
BucketsAggregate ==
    /\ \A k \in 1..Len(candlesticks) :
          /\ Group(candlesticks[k].timestamp) # {}
          /\ candlesticks[k] = Aggregate(candlesticks[k].timestamp)
    /\ \A j, k \in 1..Len(candlesticks) :
          candlesticks[j].timestamp = candlesticks[k].timestamp => j = k

\* C2 as claimed: for EVERY sequence of recorded points, the points sharing
\* one floor(timestamp/timeframe) are in one bucket: open = the first such
\* point's price, close = the last one's, high/low = max/min, volume = sum.
C2_AnyOrder == timeframe_seconds > 0 => BucketsAggregate

\* C2 as amended: the same for points recorded with non-decreasing timestamps
C2_MonotoneAggregate == (timeframe_seconds > 0 /\ Monotone) => BucketsAggregate

\* C2 witness: two buckets are held after in-order records, and one of them
\* aggregates three points with open, high, low and close all told apart
C2_Witness ==
    /\ timeframe_seconds > 0 /\ Monotone
    /\ Len(candlesticks) = 2
    /\ \E k \in 1..Len(candlesticks) :
          /\ Cardinality(Group(candlesticks[k].timestamp)) >= 2
          /\ candlesticks[k].high > candlesticks[k].low
          /\ candlesticks[k].open # candlesticks[k].close
          /\ candlesticks[k].volume >= 2

\* C17: for every capacity N the bucket sequence never holds more than N / 10
\* (rounded down) buckets.
C17_BucketsBounded ==
    ~panicked => Len(candlesticks) <= max_size \div 10

\* C17 restricted to the capacities N >= 10, where the code keeps it
C17_RoomForOne == max_size >= 10 => C17_BucketsBounded


\* the buckets of a history created empty with capacity cap and timeframe tf
\* (> 0) after recording the points pts in order
RECURSIVE RecordInto(_, _, _, _)
RecordInto(h, pts, cap, tf) ==
    IF pts = <<>> THEN h
    ELSE RecordInto([points       |-> push_point(h.points, cap, Head(pts)),
                     candlesticks |-> update_candlestick(h.candlesticks, cap, tf,
                                                         Head(pts))],
                    Tail(pts), cap, tf)
RecordedFromEmpty(pts, cap, tf) ==
    RecordInto([points |-> <<>>, candlesticks |-> <<>>], pts, cap, tf).candlesticks

\* C18: after regenerate_candlesticks the buckets are those of a history
\* created empty with the same capacity and the new timeframe in which the
\* retained points were recorded in order; the call leaves the points alone.
C18_ReplayFromEmpty ==
    /\ [](regenerated =>
             candlesticks = RecordedFromEmpty(points, max_size, timeframe_seconds))
    /\ [][regenerated' => points' = points]_vars

\* a history of capacity 20 holding three points was regenerated with
\* timeframe 3: two points of volume 1 fell into bucket 0, one into bucket 3
C18_Witness ==
    /\ regenerated
    /\ max_size = 20
    /\ timeframe_seconds = 3
    /\ Len(points) = 3
    /\ Len(candlesticks) = 2
    /\ candlesticks[1].timestamp = 0 /\ candlesticks[2].timestamp = 3
    /\ candlesticks[1].volume = 2


\* C36: in every state the buckets held are those that clearing the buckets
\* and replaying the retained points at the unchanged timeframe would give.
C36_ReplayAgrees ==
    ~panicked =>
        candlesticks = RecordedFromEmpty(points, max_size, timeframe_seconds)

\* C36 for the states in which every point recorded is still retained
C36_ReplayAgreesBeforeEviction ==
    (~panicked /\ points = recorded) =>
        candlesticks = RecordedFromEmpty(points, max_size, timeframe_seconds)

\* ten points were recorded into the history of capacity 10, all retained,
\* the time range was set in between, and the one bucket held aggregates at
\* least two of them
C36_Witness ==
    /\ Len(recorded) = 10
    /\ points = recorded
    /\ timeframe_seconds = 3
    /\ \E i \in 1..9 : recorded[i] # recorded[i + 1]
    /\ Len(candlesticks) = 1
    /\ candlesticks[1].volume = 10
    /\ candlesticks[1].high > candlesticks[1].low


\* C37: every bucket held has low <= open <= high and low <= close <= high,
\* after any sequence of add_price_point calls and changes of the timeframe.
C37_BucketWellFormed ==
    \A k \in 1..Len(candlesticks) :
        LET c == candlesticks[k] IN
        /\ c.low <= c.open /\ c.open <= c.high
        /\ c.low <= c.close /\ c.close <= c.high

\* after a change of the timeframe the bucket rebuilt from three points has
\* its open strictly between its low and its high
C37_Witness ==
    /\ regenerated
    /\ Len(candlesticks) >= 1
    /\ LET c == candlesticks[Len(candlesticks)] IN
          /\ c.volume >= 2
          /\ c.low < c.open /\ c.open < c.high
          /\ c.close = c.high


\* the venues with a registered history
Registered == {d \in ChartVenues : price_histories[d] # NoHistory}

\* C38: update_price_point for a venue leaves the history of every other
\* venue as it was and registers no history; for a venue without a registered
\* history it changes nothing at all, and for a registered venue it records
\* the point in that venue's history.
C38_OnlyThatVenue ==
    [][(/\ Len(chart_log') = Len(chart_log) + 1
        /\ chart_log'[Len(chart_log')].op = "update_price_point") =>
            LET d == chart_log'[Len(chart_log')].dex IN
            /\ \A o \in ChartVenues \ {d} : price_histories'[o] = price_histories[o]
            /\ Registered' = Registered
            /\ d \notin Registered => price_histories' = price_histories
            /\ d \in Registered =>
                  /\ price_histories'[d].points # <<>>
                  /\ price_histories'[d].max_size = price_histories[d].max_size]_vars

\* a history was registered for Whirlpool and a point recorded in it, then a
\* point was recorded for Raydium, which has none: Whirlpool's history holds
\* its point and Raydium still has no history
C38_Witness ==
    /\ Len(chart_log) = 3
    /\ chart_log[1] = [op |-> "add_price_history", dex |-> "Whirlpool"]
    /\ chart_log[2] = [op |-> "update_price_point", dex |-> "Whirlpool"]
    /\ chart_log[3] = [op |-> "update_price_point", dex |-> "Raydium"]
    /\ Len(price_histories["Whirlpool"].points) = 1
    /\ Len(price_histories["Whirlpool"].candlesticks) = 1
    /\ price_histories["Raydium"] = NoHistory


\* C19: a call returns None whenever the history holds fewer than 2 points,
\* and for a venue the chart has no history of.
C19_NoneBelowTwoPoints ==
    [][change_24h' # change_24h =>
          ((Len(points) < 2 \/ change_24h'.dex # "Whirlpool") =>
               change_24h'.kind = "None")]_vars

\* asked of the history while it held one point, inside the window
C19_Witness ==
    /\ Len(points) = 1
    /\ change_24h.dex = "Whirlpool"
    /\ change_24h.now - DaySeconds <= points[1].timestamp
    /\ change_24h.kind = "None"

\* C20: with at least 2 points held and a baseline point of price 0, the call
\* returns Some(0).
C20_ZeroBaselineGivesZero ==
    [][change_24h' # change_24h =>
          LET i == baseline(points, change_24h'.now - DaySeconds) IN
          (/\ change_24h'.dex = "Whirlpool"
           /\ Len(points) >= 2
           /\ i # 0
           /\ points[IF i = 0 THEN 1 ELSE i].price = 0) =>
               /\ change_24h'.kind = "Some"
               /\ change_24h'.num = 0
               /\ change_24h'.den # 0]_vars


\* C21: no call of add_price_point ends in a panic, whatever the capacity and
\* the timeframe of the history (0 included).
C21_NeverPanics == ~panicked

\* C21 restricted to the histories of a positive timeframe, where the
\* division of update_candlestick is defined
C21_PositiveTimeframe == timeframe_seconds > 0 => ~panicked


\* the points of the history (by position) inside the window that starts at
\* day_ago
InWindow(day_ago) == {i \in 1..Len(points) : points[i].timestamp >= day_ago}

\* C31: asked of a history holding at least 2 points, the call returns None
\* when no point held has a timestamp >= now - 86400; otherwise it returns
\* Some, and with b the first such point in the order of the sequence (of a
\* price other than 0) and c the last point held, the value is
\* (c.price - b.price) / b.price * 100.
C31_BaselineFirstInWindow ==
    [][change_24h' # change_24h =>
          LET w == InWindow(change_24h'.now - DaySeconds)
              b == CHOOSE i \in w : \A j \in w : i <= j
          IN  (change_24h'.dex = "Whirlpool" /\ Len(points) >= 2) =>
                  /\ w = {} => change_24h'.kind = "None"
                  /\ w # {} =>
                        /\ change_24h'.kind = "Some"
                        /\ points[b].price # 0 =>
                              /\ change_24h'.den # 0
                              /\ change_24h'.num * points[b].price =
                                    (points[Len(points)].price - points[b].price)
                                        * 100 * change_24h'.den]_vars

\* the window starts at 2; of the three points held the first lies before it,
\* the second (price 1) is the baseline and the last has price 2: +100 percent
C31_Witness ==
    /\ Len(points) = 3
    /\ change_24h.dex = "Whirlpool"
    /\ change_24h.now - DaySeconds = 2
    /\ points[1].timestamp < 2 /\ points[2].timestamp >= 2 /\ points[3].timestamp >= 2
    /\ points[1].price = 2 /\ points[2].price = 1 /\ points[3].price = 2
    /\ change_24h.kind = "Some"
    /\ change_24h.den # 0
    /\ change_24h.num = 100 * change_24h.den

\* the window starts beyond every point held: None
C31_WitnessNone ==
    /\ Len(points) = 3
    /\ change_24h.dex = "Whirlpool"
    /\ change_24h.now - DaySeconds = 5
    /\ change_24h.kind = "None"


\* C30: when the points were recorded with non-decreasing timestamps into a
\* history of a positive timeframe, the points held are in non-decreasing
\* order of timestamp, the bucket starts are strictly increasing (so no two
\* buckets share one), and each bucket start is a multiple of the timeframe.
C30_TimeOrdered ==
    (timeframe_seconds > 0 /\ Monotone) =>
        /\ \A i \in 1..Len(points) - 1 :
              points[i].timestamp <= points[i + 1].timestamp
        /\ \A k \in 1..Len(candlesticks) - 1 :
              candlesticks[k].timestamp < candlesticks[k + 1].timestamp
        /\ \A k \in 1..Len(candlesticks) :
              candlesticks[k].timestamp % timeframe_seconds = 0

\* three points of the timestamps 1, 2, 4 were recorded in order into a
\* history of capacity 20 and timeframe 2: the bucket of start 0 was evicted,
\* the buckets held start at 2 and 4
C30_Witness ==
    /\ timeframe_seconds = 2 /\ Monotone
    /\ max_size = 20
    /\ Len(points) = 3
    /\ points[1].timestamp = 1 /\ points[2].timestamp = 2 /\ points[3].timestamp = 4
    /\ Len(candlesticks) = 2
    /\ candlesticks[1].timestamp = 2
    /\ candlesticks[2].timestamp = 4


----------------------------------------------------------------------------
(* Claims about the Detector *)

\* the venues that report a price for a pair in the last detect call
Reporting(pair) == {d \in VenuesOf(pair) : lastPrices[pair][d] # NoPrice}
LowestPrice(pair)  == SetMin({lastPrices[pair][d] : d \in Reporting(pair)})
HighestPrice(pair) == SetMax({lastPrices[pair][d] : d \in Reporting(pair)})

\* the positions of a pair's opportunities in the list
OppsOf(pair) == {i \in 1..Len(opportunities) : opportunities[i].token_pair = pair}

\* profit_percent >= threshold for buy price lo and sell price hi, in f64:
\* (hi - lo) / lo * 100 is +inf for lo = 0 < hi and NaN for lo = 0 = hi
ProfitMeets(lo, hi, threshold) ==
    IF lo > 0 THEN (hi - lo) * 100 >= threshold * lo ELSE hi > 0

\* C10: for every pair with at least 2 venues reporting, exactly one
\* opportunity is emitted if (sell - buy) / buy * 100 >= threshold and none
\* otherwise, where buy is the lowest and sell the highest reported price; the
\* opportunity names a venue reporting the lowest price as the buy side, a
\* venue reporting the highest price as the sell side, and carries that profit.
C10_Detect ==
    lastPrices # <<>> =>
    \A pair \in Pairs :
        Cardinality(Reporting(pair)) >= 2 =>
            LET lo == LowestPrice(pair)
                hi == HighestPrice(pair)
            IN  /\ ProfitMeets(lo, hi, min_profit_threshold)
                      <=> OppsOf(pair) # {}
                /\ Cardinality(OppsOf(pair)) <= 1
                /\ \A i \in OppsOf(pair) :
                      LET o == opportunities[i] IN
                      /\ o.buy_dex \in Reporting(pair)
                      /\ o.sell_dex \in Reporting(pair)
                      /\ o.buy_price = lo /\ lastPrices[pair][o.buy_dex] = lo
                      /\ o.sell_price = hi /\ lastPrices[pair][o.sell_dex] = hi
                      /\ o.profit_percentage.num = (hi - lo) * 100
                      /\ o.profit_percentage.den = lo

\* C10 witness: the example of the spec, {VenueA: 100, VenueB: 102} with
\* threshold 1, has yielded one opportunity: buy VenueA at 100, sell VenueB at
\* 102, profit 2.0 (200/100)
C10_Witness ==
    /\ lastPrices # <<>>
    /\ min_profit_threshold = 1
    /\ lastPrices["SOL/USDC"]["VenueA"] = 100
    /\ lastPrices["SOL/USDC"]["VenueB"] = 102
    /\ lastPrices["SOL/USDC"]["VenueC"] = NoPrice
    /\ Reporting("ETH/USDC") = {}
    /\ Len(opportunities) = 1
    /\ opportunities[1].token_pair = "SOL/USDC"
    /\ opportunities[1].buy_dex = "VenueA" /\ opportunities[1].buy_price = 100
    /\ opportunities[1].sell_dex = "VenueB" /\ opportunities[1].sell_price = 102
    /\ FracEq(opportunities[1].profit_percentage, Frac(2, 1))


\* C11: a pair that fewer than two venues report has no opportunity in the
\* list, whatever the threshold (-1, 0 and 5 are explored).
C11_SingleVenueNoOpportunity ==
    lastPrices # <<>> =>
    \A pair \in Pairs :
        Cardinality(Reporting(pair)) < 2 => OppsOf(pair) = {}

\* with threshold -1, one venue reported SOL/USDC and nothing was emitted for
\* it, while ETH/USDC, reported by two, yielded an opportunity
C11_Witness ==
    /\ lastPrices # <<>>
    /\ min_profit_threshold = -1
    /\ Cardinality(Reporting("SOL/USDC")) = 1
    /\ OppsOf("SOL/USDC") = {}
    /\ OppsOf("ETH/USDC") # {}

\* C12: a pair whose lowest reported price is 0 has no opportunity in the
\* list, and no opportunity carries the result of a division by zero.
C12_ZeroBuySkipped ==
    lastPrices # <<>> =>
    /\ \A pair \in Pairs :
          (Cardinality(Reporting(pair)) >= 2 /\ LowestPrice(pair) = 0) =>
              OppsOf(pair) = {}
    /\ \A i \in 1..Len(opportunities) :
          opportunities[i].buy_price # 0 /\ opportunities[i].profit_percentage.den # 0

\* C13: after every detect call the list is the one a detector with an empty
\* list produces from the same map: nothing of the list held before remains.
C13_ListReplaced ==
    lastPrices # <<>> =>
    \E view \in SeqViews :
        /\ MapOf(view) = lastPrices
        /\ opportunities = detect_opportunities(<<>>, view, min_profit_threshold)

\* a call on a map with no price at all, on a detector that held
\* opportunities, left the list empty
C13_Witness ==
    /\ lastPrices # <<>>
    /\ prior_len > 0
    /\ \A pair \in Pairs : Reporting(pair) = {}
    /\ opportunities = <<>>

\* C14: the list is ordered by non-increasing profit percentage.
C14_SortedDescending ==
    \A i \in 1..(Len(opportunities) - 1) :
        \/ FracLess(opportunities[i + 1].profit_percentage,
                    opportunities[i].profit_percentage)
        \/ FracEq(opportunities[i + 1].profit_percentage,
                  opportunities[i].profit_percentage)

\* two opportunities of different profit, the larger first although its pair
\* comes second in the map
C14_Witness ==
    /\ Len(opportunities) = 2
    /\ opportunities[1].token_pair = "ETH/USDC"
    /\ opportunities[2].token_pair = "SOL/USDC"
    /\ FracLess(opportunities[2].profit_percentage,
                opportunities[1].profit_percentage)

\* C15: every opportunity's confidence is its profit percentage over 10,
\* limited to [0, 1]: 1 from 10 % on, 0 up to 0 %, the tenth in between.
C15_ConfidenceClamped ==
    \A i \in 1..Len(opportunities) :
        LET p == opportunities[i].profit_percentage
            c == opportunities[i].confidence_score
        IN  /\ ~IsNaN(c) /\ ~IsInf(c)
            /\ c.num >= 0 /\ c.num <= c.den
            /\ FracGeInt(p, 10) => c.num = c.den
            /\ (~IsInf(p) /\ p.num <= 0) => c.num = 0
            /\ (~IsInf(p) /\ p.num > 0 /\ ~FracGeInt(p, 10)) =>
                  c.num * 10 * p.den = p.num * c.den

\* one opportunity of 2 % with confidence 0.2 and one of at least 10 % with
\* confidence 1
C15_Witness ==
    /\ Len(opportunities) = 2
    /\ FracEq(opportunities[2].profit_percentage, Frac(2, 1))
    /\ FracEq(opportunities[2].confidence_score, Frac(2, 10))
    /\ FracGeInt(opportunities[1].profit_percentage, 10)
    /\ FracEq(opportunities[1].confidence_score, Frac(1, 1))

\* C16: a detect call on the map of the call before it leaves the list as it
\* was: the same buy venues, sell venues and order.
C16_Reproducible ==
    [][(lastPrices # <<>> /\ lastPrices' = lastPrices) =>
           opportunities' = opportunities]_vars

----------------------------------------------------------------------------
(* Claims about the multiplexer *)

\* the loop has ended: websocket_task is returning or has returned
Terminated == task \in {"returning", "finished"}

\* a step in which the application gets a new client, with a task and
\* channels of its own
NewClient == ~connect_call.active /\ connect_call'.active

\* a step of the Connect handler: new, a subscribe call, or its return, which
\* may cancel the task
ConnectStep == connect_call' # connect_call

\* a step of the loop's command branch, and of its inbound branch
CommandStep == cmd_tick' # cmd_tick /\ ~ConnectStep
InboundStep == task = "running" /\ ws_next.kind # "pending" /\ ws_next' = Pending
                                /\ cmd_tick' = cmd_tick /\ ~ConnectStep

\* a step in which the send the loop was suspended in returns
ReturnStep == awaiting # NoCommand /\ awaiting' = NoCommand /\ ~ConnectStep

\* the send of the j-th request passed to the connection has returned
Returned(j) == j < Len(outbound) \/ awaiting = NoCommand

\* the requests for key k among the first n passed to the connection
RequestsFor(k, n) == {i \in 1..n : outbound[i].key = k}

\* C3: every unsubscribe request passed to the connection names, in its
\* params, the id that the latest earlier subscribe request for the same key
\* was tagged with, no other request for that key lying between the two; once
\* the send of a key's last request has returned, the table has no entry for
\* the key if that request is an unsubscribe, and holds the request's id if
\* it is a subscribe.
C3_UnsubscribeNamesAssignedId ==
    \A j \in 1..Len(outbound) :
        LET k == outbound[j].key
            before == RequestsFor(k, j - 1)
            isLast == RequestsFor(k, Len(outbound)) \subseteq 1..j
        IN  /\ outbound[j].id = j
            /\ outbound[j].method = "accountUnsubscribe" =>
                  /\ before # {}
                  /\ outbound[SetMax(before)].method = "accountSubscribe"
                  /\ outbound[j].sub_id = outbound[SetMax(before)].id
                  /\ (isLast /\ Returned(j)) => subscriptions[k] = NoSub
            /\ (outbound[j].method = "accountSubscribe" /\ isLast /\ Returned(j)) =>
                  subscriptions[k] = outbound[j].id

\* subscribe(k1) then unsubscribe(k1), both processed, no frame arrived
C3_Witness ==
    /\ Len(outbound) = 2
    /\ outbound[1].method = "accountSubscribe" /\ outbound[1].key = "k1"
    /\ outbound[2].method = "accountUnsubscribe" /\ outbound[2].key = "k1"
    /\ outbound[2].sub_id = 1
    /\ subscriptions["k1"] = NoSub
    /\ awaiting = NoCommand
    /\ cmdq = <<>> /\ ws_next = Pending /\ updates = <<>> /\ frame_log = "none"
    /\ ws_open /\ task = "running"

\* C4: handling a text frame that fails to decode leaves the update queue as
\* it was and the loop running; a well-formed notification handled after such
\* a failure appends its update to the queue of a consumer that is still there.
C4_DecodeFailureDropped ==
    [][InboundStep /\ ws_next.kind = "text" =>
         /\ ws_next.frame \in UndecodableFrames =>
               updates' = updates /\ task' = "running" /\ ws_open' = ws_open
         /\ (ws_next.frame \in WellFormedFrames /\ frame_log = "failed"
                                                /\ client = "held") =>
               /\ Len(updates') = Len(updates) + 1
               /\ SubSeq(updates', 1, Len(updates)) = updates
               /\ updates'[Len(updates')].pubkey = ws_next.frame.pubkey
               /\ task' = "running"]_vars

C4_Witness ==
    /\ frame_log = "failed_then_forwarded"
    /\ updates # <<>>
    /\ task = "running"

\* C5: each terminating event ends the loop, and once it has ended it stays
\* ended for as long as the application keeps or drops that client: no request
\* is passed to the connection, the table and the counter keep their values,
\* no command is taken from the command queue (which accepts none either once
\* the task has returned), the connection is not reopened and the update queue
\* only shrinks.
IsSuffix(t, q) == Len(t) <= Len(q) /\ t = SubSeq(q, Len(q) - Len(t) + 1, Len(q))
IsPrefix(p, q) == Len(p) <= Len(q) /\ p = SubSeq(q, 1, Len(p))
C5_TerminatedForGood ==
    [][/\ (InboundStep /\ ws_next.kind \in {"close", "error", "end"}) =>
             Terminated'
       /\ (CommandStep /\ cmdq = <<>>) => Terminated'
       /\ (Terminated /\ ~NewClient) =>
             /\ Terminated' /\ exit_reason' = exit_reason
             /\ task = "finished" => task' = "finished"
             /\ outbound' = outbound
             /\ subscriptions' = subscriptions
             /\ subscription_id_counter' = subscription_id_counter
             /\ IsPrefix(cmdq, cmdq')
             /\ task = "finished" => cmdq' = cmdq
             /\ ws_open' = FALSE /\ ws_next' = Pending
             /\ awaiting' = awaiting
             /\ cmd_tick' = cmd_tick
             /\ IsSuffix(updates', updates)]_vars

\* the loop ended on a Close frame with a command still queued, and a command
\* submitted later was refused
C5_Witness ==
    /\ task = "finished" /\ exit_reason = "close"
    /\ cmdq # <<>>
    /\ last_submit = "Err"

\* C6: a connection that failed to open is reported by new: the caller does not
\* get Ok, holds no client and is not marked connected.
C6_FailureReported ==
    exit_reason = "connect_error" =>
        new_result # "Ok" /\ client # "held" /\ ~connected

\* C7: a receive returns the oldest queued update while there is one; on an
\* empty queue try_recv reports empty while the loop lives (recv keeps waiting)
\* and disconnected, recv end-of-stream, once it has ended; so end-of-stream
\* is only ever reported of a loop that has ended with nothing left queued.
C7_EndOfStreamDistinct ==
    /\ [](last_recv.status \in {"disconnected", "eos"} =>
             Terminated /\ updates = <<>>)
    /\ [][(last_recv' # last_recv /\ ~NewClient) =>
            /\ updates # <<>> =>
                  last_recv' = Received("update", Head(updates))
                  /\ updates' = Tail(updates)
            /\ (updates = <<>> /\ ~Terminated) =>
                  last_recv'.status = "empty"
            /\ (updates = <<>> /\ Terminated) =>
                  last_recv'.status \in {"disconnected", "eos"}]_vars

\* the loop ended with two updates queued; the consumer has taken the first
C7_Witness ==
    /\ task = "finished"
    /\ last_recv.status = "update"
    /\ Len(updates) = 1
    /\ last_recv.update.pubkey # updates[1].pubkey

\* C8: no command submitted after the loop has ended is accepted: every
\* subscribe or unsubscribe call made from then on returns Err and adds
\* nothing to the command queue.
C8_RefusedAfterShutdown ==
    [][(Terminated /\ ~NewClient) =>
          /\ Len(cmdq') <= Len(cmdq)
          /\ last_submit' # last_submit => last_submit' = "Err"]_vars

\* what the code keeps of C8: once the task has returned, cmd_receiver
\* dropped, every subscribe or unsubscribe call, those of connect_websocket
\* included, returns Err and leaves the queue as it was
C8_RefusedOnceReleased ==
    [][(task = "finished" /\ ~NewClient) =>
          /\ cmdq' = cmdq
          /\ submitted' = submitted
          /\ last_submit' # last_submit => last_submit' = "Err"]_vars

\* C9: with a command and an inbound item both ready the loop, waiting in
\* select!, may take either; under fair scheduling a ready command is taken
\* (or the loop ends) however many frames arrive, and a ready inbound item is
\* taken however many commands are submitted.  A task is followed until the
\* application connects again, which gives it a new client or ends it in a
\* panic.
C9_NoPreference ==
    /\ [](( /\ task = "running"
            /\ awaiting = NoCommand
            /\ cmdq # <<>> \/ client = "dropped"
            /\ ws_next.kind # "pending" ) =>
             ENABLED handle_command /\ ENABLED handle_inbound)
    /\ \A b \in {0, 1} :
          (task = "running" /\ cmdq # <<>> /\ cmd_tick = b)
             ~> (cmd_tick # b \/ task # "running" \/ new_result = "panic")
    /\ (task = "running" /\ ws_next.kind # "pending")
          ~> (ws_next = Pending \/ new_result = "panic")

\* what the code keeps of C9: the same, in the runs in which every send the
\* loop is suspended in returns
C9_NoPreferenceWhileSendsReturn == WF_vars(send_returns) => C9_NoPreference


\* C22: processing an unsubscribe command for a key without an entry in the
\* table sends no request, leaves the table and the counter as they were and
\* leaves the loop running.
C22_AbsentUnsubscribeNoOp ==
    [][(/\ CommandStep
        /\ cmdq # <<>>
        /\ Head(cmdq).op = "Unsubscribe"
        /\ subscriptions[Head(cmdq).key] = NoSub) =>
            /\ outbound' = outbound
            /\ subscriptions' = subscriptions
            /\ subscription_id_counter' = subscription_id_counter
            /\ task' = "running"
            /\ exit_reason' = exit_reason]_vars

\* the loop has taken the subscribe for k1 and, after its send returned, one
\* more command; it has sent the one request and is still running: the second
\* command was an unsubscribe for k2, a key without an entry
C22_Witness ==
    /\ task = "running"
    /\ cmd_tick = 0
    /\ awaiting = NoCommand
    /\ cmdq = <<>>
    /\ Len(outbound) = 1 /\ outbound[1].key = "k1"
    /\ subscription_id_counter = 2
    /\ subscriptions["k1"] = 1 /\ subscriptions["k2"] = NoSub


\* a request to subscribe to key k went out on the connection
SubscribeSent(k) ==
    \E i \in 1..Len(outbound) :
        /\ outbound[i].method = "accountSubscribe"
        /\ outbound[i].key = k
        /\ outbound[i].delivered

\* C23: once a subscribe request for key k was sent, handling a well-formed
\* notification that carries k and valid pool data puts exactly one update on
\* the update queue, and the key of that update is k.
C23_RoundTrip ==
    [][(/\ InboundStep
        /\ ws_next.kind = "text"
        /\ ws_next.frame \in WellFormedFrames
        /\ SubscribeSent(ws_next.frame.pubkey)
        /\ client = "held") =>
            /\ Len(updates') = Len(updates) + 1
            /\ SubSeq(updates', 1, Len(updates)) = updates
            /\ updates'[Len(updates')].pubkey = ws_next.frame.pubkey]_vars

\* the request for k2 went out and the queue holds the update of a
\* notification carrying k2
C23_Witness ==
    /\ SubscribeSent("k2")
    /\ ~SubscribeSent("k1")
    /\ client = "held"
    /\ Len(updates) = 1
    /\ updates[1].pubkey = "k2"


\* the subscribe requests for key k passed to the connection so far
SubscribesFor(k) ==
    {i \in 1..Len(outbound) :
        outbound[i].method = "accountSubscribe" /\ outbound[i].key = k}

\* C24: every subscribe command processed passes one more subscribe request
\* for its key to the connection, whether or not the key has an entry already;
\* the requests for one key carry pairwise distinct ids, and when the send
\* returns the table maps the key to the id of the request just sent, the
\* entries of the other keys untouched.
C24_RepeatSubscribes ==
    /\ [](\A k \in Keys : \A i, j \in SubscribesFor(k) :
              i # j => outbound[i].id # outbound[j].id)
    /\ [][(CommandStep /\ cmdq # <<>> /\ Head(cmdq).op = "Subscribe") =>
             LET k == Head(cmdq).key
                 n == Len(outbound')
             IN  /\ n = Len(outbound) + 1
                 /\ SubSeq(outbound', 1, Len(outbound)) = outbound
                 /\ outbound'[n].method = "accountSubscribe"
                 /\ outbound'[n].key = k
                 /\ awaiting' = Subscribe(k)
                 /\ subscriptions' = subscriptions]_vars
    /\ [][(ReturnStep /\ awaiting.op = "Subscribe") =>
             LET k == awaiting.key
                 n == Len(outbound)
             IN  /\ Len(outbound') = n
                 /\ outbound[n].method = "accountSubscribe"
                 /\ outbound[n].key = k
                 /\ subscriptions'[k] = outbound[n].id
                 /\ \A o \in Keys \ {k} : subscriptions'[o] = subscriptions[o]]_vars

\* three subscribe commands for k1 were processed: three requests with the ids
\* 1, 2, 3 went out and the table maps k1 to 3
C24_Witness ==
    /\ Len(outbound) = 3
    /\ SubscribesFor("k1") = {1, 2, 3}
    /\ {outbound[i].id : i \in 1..3} = {1, 2, 3}
    /\ subscriptions["k1"] = 3
    /\ subscriptions["k2"] = NoSub
    /\ awaiting = NoCommand


\* C25: the requests passed to the connection, subscribe and unsubscribe
\* alike, carry the ids 1, 2, 3, ... in the order sent; the counter is the id
\* of the request whose send the loop is suspended in, and otherwise the id of
\* the next request.  On one connection the counter never decreases; a step
\* that passes a request tags it with the counter, the return of its send
\* advances the counter by one, and any other step leaves the counter alone.
C25_IdsConsecutive ==
    /\ [](/\ subscription_id_counter =
                IF awaiting = NoCommand THEN Len(outbound) + 1 ELSE Len(outbound)
          /\ \A j \in 1..Len(outbound) :
                /\ outbound[j].id = j
                /\ j > 1 => outbound[j].id = outbound[j - 1].id + 1)
    /\ [][~NewClient =>
          /\ subscription_id_counter' >= subscription_id_counter
          /\ Len(outbound') # Len(outbound) =>
                /\ Len(outbound') = Len(outbound) + 1
                /\ outbound'[Len(outbound')].id = subscription_id_counter
                /\ subscription_id_counter' = subscription_id_counter
                /\ awaiting = NoCommand /\ awaiting' # NoCommand
          /\ ReturnStep =>
                /\ Len(outbound') = Len(outbound)
                /\ subscription_id_counter' = subscription_id_counter + 1
          /\ (Len(outbound') = Len(outbound) /\ ~ReturnStep) =>
                subscription_id_counter' = subscription_id_counter]_vars

\* four requests went out, subscribe and unsubscribe requests alternating,
\* and one more command, an unsubscribe that sent nothing, was handled
C25_Witness ==
    /\ Len(outbound) = 4
    /\ outbound[1].method = "accountSubscribe"
    /\ outbound[2].method = "accountUnsubscribe"
    /\ outbound[3].method = "accountSubscribe"
    /\ outbound[4].method = "accountUnsubscribe"
    /\ outbound[4].id = 4
    /\ subscription_id_counter = 5
    /\ cmd_tick = 1
    /\ task = "running"


\* the handles the table holds
Handles == {subscriptions[k] : k \in {x \in Keys : subscriptions[x] # NoSub}}

\* C26: the table holds at most one handle per key, the handles of two keys
\* differ, and every handle is smaller than the counter; the handle a
\* subscribe command gives its key when its send returns is the id of its
\* request, greater than every handle in the table and every id issued
\* before, also when the key was unsubscribed in between.
C26_HandlesDistinct ==
    /\ [](/\ DOMAIN subscriptions = Keys
          /\ \A k \in Keys : subscriptions[k] \in 0..(subscription_id_counter - 1)
          /\ \A k, o \in Keys :
                (k # o /\ subscriptions[k] # NoSub /\ subscriptions[o] # NoSub) =>
                    subscriptions[k] # subscriptions[o])
    /\ [][(ReturnStep /\ awaiting.op = "Subscribe") =>
             LET h == subscriptions'[awaiting.key]
             IN  /\ h # NoSub
                 /\ h = outbound[Len(outbound)].id
                 /\ \A g \in Handles : h > g
                 /\ \A i \in 1..(Len(outbound) - 1) :
                       h > outbound[i].id /\ h > outbound[i].sub_id]_vars

\* k1 was subscribed (1), unsubscribed (2) and subscribed again (3), then k2
\* was subscribed (4)
C26_Witness ==
    /\ Len(outbound) = 4
    /\ outbound[1].method = "accountSubscribe" /\ outbound[1].key = "k1"
    /\ outbound[2].method = "accountUnsubscribe" /\ outbound[2].key = "k1"
    /\ outbound[2].sub_id = 1
    /\ outbound[3].method = "accountSubscribe" /\ outbound[3].key = "k1"
    /\ outbound[4].method = "accountSubscribe" /\ outbound[4].key = "k2"
    /\ subscriptions["k1"] = 3
    /\ subscriptions["k2"] = 4


\* a frame with the envelope of a subscription notification: params.result.value
IsNotification(f) == f.parses /\ f.params /\ f.result /\ f.value

\* C27: handling an inbound text frame of any shape leaves the table, the
\* counter and the requests sent as they were; if the frame is not a
\* subscription notification, the update queue is left alone too and the loop
\* keeps running.
C27_FramesLeaveTableAlone ==
    [][(InboundStep /\ ws_next.kind = "text") =>
          /\ subscriptions' = subscriptions
          /\ subscription_id_counter' = subscription_id_counter
          /\ outbound' = outbound
          /\ ~IsNotification(ws_next.frame) =>
                /\ updates' = updates
                /\ task' = "running"
                /\ exit_reason' = exit_reason
                /\ ws_open' = ws_open]_vars

\* with k1 subscribed, the loop took a reply, an unparseable payload and a
\* notification of another kind: the table holds its entry, nothing is queued
C27_Witness ==
    /\ received = <<Acknowledgement, NotJson, Unrelated>>
    /\ subscriptions["k1"] = 1
    /\ subscription_id_counter = 2
    /\ Len(outbound) = 1
    /\ updates = <<>> /\ obtained = <<>>
    /\ task = "running"


\* the updates of the frames fs that decode, in the order of the frames
RECURSIVE DecodedOf(_)
DecodedOf(fs) ==
    IF fs = <<>> THEN <<>>
    ELSE handle_websocket_message(Head(fs)).updates \o DecodedOf(Tail(fs))

\* C28: while the caller holds the client, the updates it has obtained by
\* recv and try_recv, followed by the updates still queued, are exactly the
\* updates of the decoding frames in the order the loop took the frames from
\* the connection: none reordered, duplicated or lost.  What the caller
\* obtained is at all times a prefix of that sequence.
C28_ArrivalOrder ==
    /\ client = "held" => obtained \o updates = DecodedOf(received)
    /\ IsPrefix(obtained, DecodedOf(received))

\* a notification for k1 of slot 7, an unparseable frame and a notification
\* for k2 were taken in this order, and the caller obtained the update of k1
\* before the update of k2
C28_Witness ==
    /\ received = << NotificationAt("whirlpool", "k1", "value", 7), NotJson,
                     NotificationAt("whirlpool", "k2", "none", 0) >>
    /\ client = "held"
    /\ Len(obtained) = 2
    /\ obtained[1].pubkey = "k1" /\ obtained[1].slot = 7
    /\ obtained[2].pubkey = "k2"
    /\ updates = <<>>


\* C29: the update of a notification of the documented shape, with
\* {"context":{"slot":s}} beside "value" in params.result, carries slot s.
C29_SlotCarried ==
    [][(/\ InboundStep
        /\ ws_next.kind = "text"
        /\ ws_next.frame \in DocumentedFrames
        /\ client = "held") =>
            /\ Len(updates') = Len(updates) + 1
            /\ updates'[Len(updates')].slot = ws_next.frame.slot]_vars

\* what the code does instead: the slot of an update is the frame's only when
\* the frame carries its context inside "value", and 0 otherwise
C29_SlotFromValueContext ==
    [][(/\ InboundStep
        /\ ws_next.kind = "text"
        /\ Len(updates') = Len(updates) + 1) =>
            updates'[Len(updates')].slot =
                IF ws_next.frame.context = "value" THEN ws_next.frame.slot ELSE 0]_vars


\* the last request passed to the connection for key k is an unsubscribe
\* request: the key was unsubscribed and not subscribed again since
Unsubscribed(k) ==
    /\ RequestsFor(k, Len(outbound)) # {}
    /\ outbound[SetMax(RequestsFor(k, Len(outbound)))].method = "accountUnsubscribe"

\* C32: no update is placed on the update queue for a key that was
\* unsubscribed and not subscribed again since: the key of every update the
\* loop forwards has an entry in the table when its frame is handled.
C32_NoUpdateAfterUnsubscribe ==
    [][(/\ InboundStep
        /\ ws_next.kind = "text"
        /\ Len(updates') = Len(updates) + 1) =>
            LET k == updates'[Len(updates')].pubkey
            IN  ~Unsubscribed(k) /\ subscriptions[k] # NoSub]_vars


\* the ids of the subscribe requests that went out and that no unsubscribe
\* request sent afterwards names: the subscriptions open at the server
OpenIds ==
    {outbound[i].id : i \in
        {i \in 1..Len(outbound) :
            /\ outbound[i].method = "accountSubscribe"
            /\ outbound[i].delivered
            /\ ~\E j \in (i + 1)..Len(outbound) :
                  /\ outbound[j].method = "accountUnsubscribe"
                  /\ outbound[j].delivered
                  /\ outbound[j].sub_id = outbound[i].id}}

\* C33: the ids the table holds are exactly the ids of the subscribe requests
\* sent that no later unsubscribe request names.
C33_TableTracksOpen == Handles = OpenIds

\* the half of C33 the code keeps while every send succeeds: the table holds
\* no id other than those of open subscriptions
C33_TableWithinOpen ==
    (\A i \in 1..Len(outbound) : outbound[i].delivered) => Handles \subseteq OpenIds


\* the requests (method and key) that handling the commands cmds in order
\* produces, starting from the set subscribed of subscribed keys: one per
\* subscribe, one per unsubscribe of a subscribed key, none otherwise
RECURSIVE RequestsOf(_, _)
RequestsOf(cmds, subscribed) ==
    IF cmds = <<>> THEN <<>>
    ELSE LET c == Head(cmds) IN
         IF c.op = "Subscribe"
         THEN << <<"accountSubscribe", c.key>> >>
                  \o RequestsOf(Tail(cmds), subscribed \cup {c.key})
         ELSE IF c.key \in subscribed
         THEN << <<"accountUnsubscribe", c.key>> >>
                  \o RequestsOf(Tail(cmds), subscribed \ {c.key})
         ELSE RequestsOf(Tail(cmds), subscribed)

\* C34: the commands still queued are the last of the commands submitted, in
\* their order; the requests passed to the connection are, in order, those of
\* the commands submitted before them, unsubscribes of absent keys producing
\* none; and a loop that stopped on the closed command channel has handled
\* every command submitted.
C34_SubmissionOrder ==
    LET handled == SubSeq(submitted, 1, Len(submitted) - Len(cmdq))
    IN  /\ IsSuffix(cmdq, submitted)
        /\ [j \in 1..Len(outbound) |-> <<outbound[j].method, outbound[j].key>>]
               = RequestsOf(handled, {})
        /\ exit_reason \in {"commands_closed", "shutdown"} =>
               /\ cmdq = <<>>
               /\ Len(outbound) = Len(RequestsOf(submitted, {}))

\* subscribe(k1), unsubscribe(k2), unsubscribe(k1), subscribe(k2) were
\* submitted in this order, the client was dropped, and the loop stopped on
\* the closed channel after sending the three requests they call for
C34_Witness ==
    /\ submitted = << Subscribe("k1"), Unsubscribe("k2"), Unsubscribe("k1"),
                      Subscribe("k2") >>
    /\ exit_reason = "commands_closed"
    /\ Len(outbound) = 3
    /\ outbound[1].method = "accountSubscribe" /\ outbound[1].key = "k1"
    /\ outbound[2].method = "accountUnsubscribe" /\ outbound[2].key = "k1"
    /\ outbound[3].method = "accountSubscribe" /\ outbound[3].key = "k2"


\* C35: once the client is dropped while the loop runs, the loop eventually
\* terminates under fair scheduling, whatever frames keep arriving (a task is
\* followed until the application connects again, which gives it a new client
\* or ends it in a panic);
\* when it stops on the closed command channel, the client is gone and no
\* command is left in the channel.
C35_DropTerminates ==
    /\ (client = "dropped" /\ task = "running")
          ~> (Terminated \/ client = "held" \/ new_result = "panic")
    /\ [](exit_reason = "commands_closed" =>
             client = "dropped" /\ cmdq = <<>>)

\* what the code keeps of C35: the same, in the runs in which every send the
\* loop is suspended in returns
C35_DropTerminatesWhileSendsReturn == WF_vars(send_returns) => C35_DropTerminates

\* C39: after every detect call the list holds at most one opportunity per
\* pair, and every opportunity in it buys and sells at different venues, has
\* buy_price <= sell_price, and has a profit_percentage that is >= the
\* detector's minimum threshold (as f64: +inf passes, NaN does not).
C39_ListWellFormed ==
    lastPrices # <<>> =>
    /\ \A pair \in Pairs : Cardinality(OppsOf(pair)) <= 1
    /\ \A i \in 1..Len(opportunities) :
          LET o == opportunities[i] IN
          /\ o.token_pair \in Pairs
          /\ o.buy_dex # o.sell_dex
          /\ o.buy_price <= o.sell_price
          /\ FracGeInt(o.profit_percentage, min_profit_threshold)

\* a detector with threshold 0 that held two opportunities was called again
\* with {SOL/USDC: {VenueA: 100, VenueB: 102}, ETH/USDC: {VenueA: 100,
\* VenueB: 100}}: the list holds one opportunity per pair, the second with
\* equal prices at two venues and profit 0
C39_Witness ==
    /\ lastPrices # <<>>
    /\ min_profit_threshold = 0
    /\ prior_len = 2
    /\ lastPrices["SOL/USDC"]["VenueA"] = 100
    /\ lastPrices["SOL/USDC"]["VenueB"] = 102
    /\ lastPrices["ETH/USDC"]["VenueA"] = 100
    /\ lastPrices["ETH/USDC"]["VenueB"] = 100
    /\ Len(opportunities) = 2
    /\ Cardinality(OppsOf("SOL/USDC")) = 1
    /\ Cardinality(OppsOf("ETH/USDC")) = 1
    /\ \E i \in OppsOf("ETH/USDC") :
          /\ opportunities[i].buy_price = opportunities[i].sell_price
          /\ opportunities[i].buy_dex # opportunities[i].sell_dex
          /\ opportunities[i].profit_percentage.num = 0

====
